---- MODULE Spec2Model ----
(***************************************************************************)
(* FrameScout: client-side extraction of still frames from a video file.   *)
(* The model covers src/utils/videoUtils.ts (loadVideo, captureFrame,      *)
(* extractSpecificFrame, extractFrames), the handlers of src/App.tsx and   *)
(* the buttons of src/components/Gallery.tsx. Times, percentages and       *)
(* canvas sizes are JavaScript Numbers in the source and IEEE-754 doubles  *)
(* here: every operation rounds as the source's does.                      *)
(***************************************************************************)
EXTENDS Integers, Sequences, FiniteSets, TLC

(***************************************************************************)
(* Bounds of the model.                                                    *)
(***************************************************************************)
\* largest frame count the settings slider offers in the model (source: 50)
MaxCount == 2
\* Math.random() is drawn from {0/RandDen, ..., (RandDen-1)/RandDen}
RandDen == 2
\* number of handleProcess invocations in one behaviour
MaxRuns == 2
\* number of handleFileSelect invocations in one behaviour
MaxSelects == 2
\* number of handleFileSelect and handleProcess invocations together in one
\* behaviour of the application at large (Spec)
MaxHandlers == 3
\* number of host failures (no 2d context, drawImage throwing, the encoder
\* refusing a canvas that has pixels, the archive failing to build) in one
\* behaviour
MaxFaults == 1
\* number of 'error' events that videos fire after their metadata has
\* loaded, in one behaviour
MaxMediaErrors == 1
\* number of handleDownload invocations waiting for their archive at a time
MaxZips == 1
\* largest frame count of the single extraction without jitter (SpecSolo)
SoloMaxCount == 8
\* a long single extraction besides: the frame count at which a percentage
\* computed in doubles, (23 / 40) * 100, falls just under a half
SoloLongCount == 40
\* largest frame count handed to the planner on its own, without jitter
PlanMaxCount == 8
\* largest frame count handed to the planner on its own, with jitter
PlanJitterMaxCount == 3
\* for the planner on its own Math.random() is drawn from
\* {0/PlanRandDen, ..., (PlanRandDen-1)/PlanRandDen}
PlanRandDen == 2

(***************************************************************************)
(* JavaScript Numbers. A Number is an IEEE-754 binary64 value; every       *)
(* arithmetic operation of the source gives the exact result rounded to 53 *)
(* significant bits, ties to even. A finite double is sg * m * 2^e with m  *)
(* a natural number kept as a sequence of limbs (base 2^15, lowest first)  *)
(* because it does not fit a 32-bit integer; m is odd, and zero is         *)
(* written [sg |-> 0, m |-> <<>>, e |-> 0], so that equal Numbers are      *)
(* equal records. The values of the model stay far from the overflow and   *)
(* subnormal ranges.                                                       *)
(***************************************************************************)
Abs(k) == IF k < 0 THEN -k ELSE k
Min2(j, k) == IF j < k THEN j ELSE k

LimbBits == 15
Base == 2 ^ LimbBits
Pow2(k) == 2 ^ k

\* a natural number in limbs of LimbBits bits, lowest first. The operations
\* are functions, so that an operand is a value wherever it is used
Limbs == Seq(0..(Base - 1))

\* a natural without its leading zero limbs
NNorm[a \in Limbs] ==
    IF a = <<>> THEN a
    ELSE IF a[Len(a)] = 0 THEN NNorm[SubSeq(a, 1, Len(a) - 1)] ELSE a

\* an integer k >= 0 as a natural
NOfInt[k \in Nat] ==
    IF k = 0 THEN <<>> ELSE <<k % Base>> \o NOfInt[k \div Base]

\* a natural below 2^31 as an integer
NToInt[a \in Limbs] == IF a = <<>> THEN 0 ELSE a[1] + Base * NToInt[Tail(a)]

NCmpAt[a \in Limbs, b \in Limbs, k \in Nat] ==
    IF k = 0 THEN 0
    ELSE IF a[k] < b[k] THEN -1
    ELSE IF a[k] > b[k] THEN 1
    ELSE NCmpAt[a, b, k - 1]
\* -1, 0, 1 as a < b, a = b, a > b
NCmp[a \in Limbs, b \in Limbs] ==
    IF Len(a) < Len(b) THEN -1
    ELSE IF Len(a) > Len(b) THEN 1
    ELSE NCmpAt[a, b, Len(a)]

NAddC[a \in Limbs, b \in Limbs, c \in Nat] ==
    IF a = <<>> /\ b = <<>> THEN (IF c = 0 THEN <<>> ELSE <<c>>)
    ELSE LET s == (IF a = <<>> THEN 0 ELSE a[1])
                    + (IF b = <<>> THEN 0 ELSE b[1]) + c
         IN  <<s % Base>> \o NAddC[IF a = <<>> THEN a ELSE Tail(a),
                                   IF b = <<>> THEN b ELSE Tail(b),
                                   s \div Base]
\* a + b
NAdd[a \in Limbs, b \in Limbs] == NAddC[a, b, 0]

NSubB[a \in Limbs, b \in Limbs, br \in Nat] ==
    IF a = <<>> THEN <<>>
    ELSE LET s == a[1] - (IF b = <<>> THEN 0 ELSE b[1]) - br
         IN  <<IF s < 0 THEN s + Base ELSE s>>
                 \o NSubB[Tail(a), IF b = <<>> THEN b ELSE Tail(b),
                          IF s < 0 THEN 1 ELSE 0]
\* a - b for a >= b
NSub[a \in Limbs, b \in Limbs] == NNorm[NSubB[a, b, 0]]

\* a * k + c for 0 <= k <= Base
NMulS[a \in Limbs, k \in Nat, c \in Nat] ==
    IF a = <<>> THEN NOfInt[c]
    ELSE LET s == a[1] * k + c
         IN  <<s % Base>> \o NMulS[Tail(a), k, s \div Base]

\* a * b
NMul[a \in Limbs, b \in Limbs] ==
    IF a = <<>> \/ b = <<>> THEN <<>>
    ELSE NNorm[NAdd[NMulS[a, b[1], 0], <<0>> \o NMul[a, Tail(b)]]]

\* a * 2^k
NShl[a \in Limbs, k \in Nat] ==
    IF a = <<>> THEN a
    ELSE [i \in 1..(k \div LimbBits) |-> 0] \o NMulS[a, Pow2(k % LimbBits), 0]

NDivSAt[a \in Limbs, k \in Nat, i \in Nat, rem \in Nat] ==
    IF i = 0 THEN <<>>
    ELSE LET s == rem * Base + a[i]
         IN  NDivSAt[a, k, i - 1, s % k] \o <<s \div k>>
\* a \div k for 0 < k <= Base
NDivS[a \in Limbs, k \in Nat] == NNorm[NDivSAt[a, k, Len(a), 0]]

NModSAt[a \in Limbs, k \in Nat, i \in Nat, rem \in Nat] ==
    IF i = 0 THEN rem ELSE NModSAt[a, k, i - 1, (rem * Base + a[i]) % k]
\* a % k for 0 < k <= Base
NModS[a \in Limbs, k \in Nat] == NModSAt[a, k, Len(a), 0]

\* a \div 2^k
NShr[a \in Limbs, k \in Nat] ==
    IF k \div LimbBits >= Len(a) THEN <<>>
    ELSE NDivS[SubSeq(a, k \div LimbBits + 1, Len(a)), Pow2(k % LimbBits)]

\* the number of bits of k >= 0
BitLen[k \in Nat] == IF k = 0 THEN 0 ELSE 1 + BitLen[k \div 2]
NBitLen[a \in Limbs] ==
    IF a = <<>> THEN 0 ELSE LimbBits * (Len(a) - 1) + BitLen[a[Len(a)]]

LowZeros[k \in Nat] == IF k % 2 = 1 THEN 0 ELSE 1 + LowZeros[k \div 2]
\* the number of zero bits below the lowest one bit of a # 0
NLowZeros[a \in Limbs] ==
    IF a[1] = 0 THEN LimbBits + NLowZeros[Tail(a)] ELSE LowZeros[a[1]]

\* the largest d in lo..hi with b * d <= r
QDigit[r \in Limbs, b \in Limbs, lo \in Nat, hi \in Nat] ==
    IF lo = hi THEN lo
    ELSE IF NCmp[NMulS[b, (lo + hi + 1) \div 2, 0], r] <= 0
         THEN QDigit[r, b, (lo + hi + 1) \div 2, hi]
         ELSE QDigit[r, b, lo, (lo + hi + 1) \div 2 - 1]

\* the remainder r1 so far gives the digit d of the quotient q
NDivModBy[a \in Limbs, b \in Limbs, i \in Nat, q \in Limbs, r1 \in Limbs,
          d \in Nat] ==
    IF i = 1 THEN <<<<d>> \o q, NSub[r1, NMulS[b, d, 0]]>>
    ELSE NDivModBy[a, b, i - 1, <<d>> \o q,
                   NNorm[<<a[i - 1]>> \o NSub[r1, NMulS[b, d, 0]]],
                   QDigit[NNorm[<<a[i - 1]>> \o NSub[r1, NMulS[b, d, 0]]],
                          b, 0, Base - 1]]
\* <<a \div b, a % b>> for b # 0: long division, one limb of the quotient
\* at a time from the highest
NDivMod[a \in Limbs, b \in Limbs] ==
    IF Len(b) = 1 THEN <<NDivS[a, b[1]], NOfInt[NModS[a, b[1]]]>>
    ELSE IF a = <<>> THEN <<a, a>>
    ELSE LET qr == NDivModBy[a, b, Len(a), <<>>, <<a[Len(a)]>>,
                             QDigit[<<a[Len(a)]>>, b, 0, Base - 1]]
         IN  <<NNorm[qr[1]], qr[2]>>

\* the Number 0
FZero == [sg |-> 0, m |-> <<>>, e |-> 0]
\* the Numbers: sg * m * 2^e with m odd, and 0
Doubles == [sg : {-1, 0, 1}, m : Limbs, e : Int]

\* sg * m * 2^e in the form with m odd
Canon[sg \in {-1, 0, 1}, m \in Limbs, e \in Int] ==
    IF m = <<>> \/ sg = 0 THEN FZero
    ELSE [sg |-> sg, m |-> NShr[m, NLowZeros[m]], e |-> e + NLowZeros[m]]

\* the quotient q of m by 2^k, one more when the rest is above the half of
\* 2^k, or is the half and q is odd or something was dropped before
RoundQ[sg \in {-1, 0, 1}, m \in Limbs, e \in Int, sticky \in BOOLEAN,
       k \in Nat, q \in Limbs, c \in Int] ==
    Canon[sg,
          IF c > 0 \/ (c = 0 /\ (sticky \/ q[1] % 2 = 1))
          THEN NAdd[q, <<1>>] ELSE q,
          e + k]
\* the double nearest to sg * (m + f) * 2^e, ties to even, where f is 0, or
\* some fraction strictly between 0 and 1 when sticky
Round53[sg \in {-1, 0, 1}, m \in Limbs, e \in Int, sticky \in BOOLEAN] ==
    IF NBitLen[m] <= 53 THEN Canon[sg, m, e]
    ELSE LET k == NBitLen[m] - 53
             q == NShr[m, k]
         IN  RoundQ[sg, m, e, sticky, k, q,
                    NCmp[NSub[m, NShl[q, k]], NShl[<<1>>, k - 1]]]

\* an integer of the source (below 2^31 in magnitude) as a Number
FInt(k) ==
    Canon[IF k < 0 THEN -1 ELSE IF k = 0 THEN 0 ELSE 1, NOfInt[Abs(k)], 0]

\* -1, 0, 1 as a < b, a = b, a > b
FCmpFn[a \in Doubles, b \in Doubles] ==
    IF a.sg # b.sg THEN (IF a.sg < b.sg THEN -1 ELSE 1)
    ELSE IF a.sg = 0 THEN 0
    ELSE IF NBitLen[a.m] + a.e # NBitLen[b.m] + b.e
         THEN (IF NBitLen[a.m] + a.e < NBitLen[b.m] + b.e THEN -a.sg ELSE a.sg)
         ELSE a.sg * NCmp[NShl[a.m, a.e - Min2(a.e, b.e)],
                          NShl[b.m, b.e - Min2(a.e, b.e)]]
FCmp(a, b) == FCmpFn[a, b]
FLe(a, b) == FCmp(a, b) <= 0
FLt(a, b) == FCmp(a, b) < 0

FNeg(a) == [a EXCEPT !.sg = -@]
FAbs(a) == [a EXCEPT !.sg = Abs(@)]

\* the sum of sa * ma * 2^e and sb * mb * 2^e
AddAligned[sa \in {-1, 1}, ma \in Limbs, sb \in {-1, 1}, mb \in Limbs,
           e \in Int] ==
    IF sa = sb THEN Round53[sa, NAdd[ma, mb], e, FALSE]
    ELSE IF NCmp[ma, mb] = 0 THEN FZero
    ELSE IF NCmp[ma, mb] > 0 THEN Round53[sa, NSub[ma, mb], e, FALSE]
    ELSE Round53[sb, NSub[mb, ma], e, FALSE]
\* a + b
FAddFn[a \in Doubles, b \in Doubles] ==
    IF a.sg = 0 THEN b
    ELSE IF b.sg = 0 THEN a
    ELSE AddAligned[a.sg, NShl[a.m, a.e - Min2(a.e, b.e)],
                    b.sg, NShl[b.m, b.e - Min2(a.e, b.e)], Min2(a.e, b.e)]
FAdd(a, b) == FAddFn[a, b]
\* a - b
FSub(a, b) == FAdd(a, FNeg(b))
\* a * b
FMulFn[a \in Doubles, b \in Doubles] ==
    IF a.sg = 0 \/ b.sg = 0 THEN FZero
    ELSE Round53[a.sg * b.sg, NMul[a.m, b.m], a.e + b.e, FALSE]
FMul(a, b) == FMulFn[a, b]
\* the quotient and the rest of a.m * 2^s by b.m, rounded
DivShifted[a \in Doubles, b \in Doubles, s \in Nat, qr \in Seq(Limbs)] ==
    Round53[a.sg * b.sg, qr[1], a.e - b.e - s, qr[2] # <<>>]
\* a / b for b # 0
FDivFn[a \in Doubles, b \in Doubles] ==
    IF a.sg = 0 THEN FZero
    ELSE LET d == 55 + NBitLen[b.m] - NBitLen[a.m]
             s == IF d < 0 THEN 0 ELSE d
         IN  DivShifted[a, b, s, NDivMod[NShl[a.m, s], b.m]]
FDiv(a, b) == FDivFn[a, b]
\* Math.max / Math.min
FMaxFn[a \in Doubles, b \in Doubles] == IF FLe(a, b) THEN b ELSE a
FMax(a, b) == FMaxFn[a, b]
FMinFn[a \in Doubles, b \in Doubles] == IF FLe(a, b) THEN a ELSE b
FMin(a, b) == FMinFn[a, b]
\* the whole part of |a| (below 2^31), as an integer
FWhole[a \in Doubles] ==
    IF a.sg = 0 THEN 0
    ELSE IF a.e >= 0 THEN NToInt[NShl[a.m, a.e]]
    ELSE NToInt[NShr[a.m, -a.e]]
\* Math.floor, as an integer: a Number with e < 0 has a fraction
FFloorFn[a \in Doubles] ==
    IF a.sg >= 0 THEN FWhole[a]
    ELSE IF a.e >= 0 THEN -FWhole[a] ELSE -FWhole[a] - 1
FFloor(a) == FFloorFn[a]
\* the time value of new Date(a): the fraction is dropped (towards zero)
FTruncFn[a \in Doubles] == IF a.sg >= 0 THEN FWhole[a] ELSE -FWhole[a]
FTrunc(a) == FTruncFn[a]
\* Math.round of a Number that is not negative: floor(a + 1/2), exactly
FRoundFn[a \in Doubles] ==
    IF a.sg = 0 THEN 0
    ELSE IF a.e >= 0 THEN NToInt[NShl[a.m, a.e]]
    ELSE NToInt[NShr[NAdd[a.m, NShl[<<1>>, -a.e - 1]], -a.e]]
FRound(a) == FRoundFn[a]
\* the literal n/d of the source, n and d integers: the double nearest to it
Dbl(n, d) == FDiv(FInt(n), FInt(d))

\* the margin kept from both ends of the video, 0.1 s
EdgeMargin == Dbl(1, 10)
JitterSpanWhole == FInt(1)
\* the share of a step the jitter spans, 0.8
JitterSpan == Dbl(4, 5)
Half == Dbl(1, 2)

(***************************************************************************)
(* Timestamp planner: the first part of extractFrames.                     *)
(***************************************************************************)
StepOverCount(duration, cnt) == FDiv(duration, FInt(cnt))
\* const step = duration / (count + 1)
Step(duration, cnt) == FDiv(duration, FInt(cnt + 1))

JitterOffsetFullStep(step, rnd) == FMul(FSub(rnd, Half), step)
\* (Math.random() - 0.5) * (step * 0.8)
JitterOffset(step, rnd) == FMul(FSub(rnd, Half), FMul(step, JitterSpan))

\* the candidate of 0-based index i before clamping:
\* let t = step * (i + 1); if (randomize) t += offset
Candidate(duration, cnt, jitter, rnd, i) ==
    LET step == Step(duration, cnt)
        t == FMul(step, FInt(i + 1))
    IN  IF jitter THEN FAdd(t, JitterOffset(step, rnd)) ELSE t

ClampOff(duration, t) == t
ClampUpperLast(duration, t) ==
    FMin(FSub(duration, EdgeMargin), FMax(EdgeMargin, t))
\* Math.max(0.1, Math.min(duration - 0.1, t))
Clamp(duration, t) == FMax(EdgeMargin, FMin(FSub(duration, EdgeMargin), t))

CompareDescending(a, b) == FSub(b, a)
\* the comparator of the sort, (a, b) => a - b
CompareFn(a, b) == FSub(a, b)

\* the one element of a set {k} of positive integers
TheOne(S) == Cardinality(UNION {1..k : k \in S})

\* the comparator puts s[j] before s[k], or ties them with j the earlier
Before(s, j, k) ==
    LET c == CompareFn(s[j], s[k]).sg
    IN  c < 0 \/ (c = 0 /\ j < k)
\* the elements of s, the one of index k at the position pos[k]
Placed[s \in Seq(Doubles), pos \in Seq(Nat)] ==
    SubSeq([p \in 1..Len(s) |-> s[TheOne({k \in 1..Len(s) : pos[k] = p})]],
           1, Len(s))
\* Array.prototype.sort(compareFn): ascending by the comparator and stable;
\* the element of index k lands behind those the comparator puts before it
\* and those it ties with that stood before it
Sorted[s \in Seq(Doubles)] ==
    Placed[s, SubSeq([k \in 1..Len(s) |->
                  1 + Cardinality({j \in 1..Len(s) : j # k /\ Before(s, j, k)})],
                  1, Len(s))]
SortAsc(s) == Sorted[s]

\* the candidates in index order, before clamping
Candidates(duration, cnt, jitter, rnds) ==
    SubSeq([k \in 1..cnt |-> Candidate(duration, cnt, jitter, rnds[k], k - 1)],
           1, cnt)

\* the clamped candidates in index order, before the sort
Clamped(duration, cnt, jitter, rnds) ==
    SubSeq([k \in 1..cnt |->
               Clamp(duration, Candidate(duration, cnt, jitter, rnds[k], k - 1))],
           1, cnt)

\* const timestamps = Array.from({length: count}, ...).sort(...)
Plan(duration, cnt, jitter, rnds) ==
    SortAsc(Clamped(duration, cnt, jitter, rnds))

\* the values Math.random() takes in the model
RandVals == {Dbl(k, RandDen) : k \in 0..(RandDen - 1)}
\* one draw per index when jitter is on, none otherwise
RandSeqs(cnt, jitter) ==
    IF jitter THEN [1..cnt -> RandVals]
    ELSE {[k \in 1..cnt |-> FZero]}

(***************************************************************************)
(* Files the user can pick. A File is known by its name; the decoder        *)
(* decides whether it loads and what duration and dimensions it reports.   *)
(***************************************************************************)
Null == "null"
VideoFiles == {"tiny.mp4", "broken.mp4"}

\* file.name.split('.')
SplitDot(f) ==
    CASE f = "tiny.mp4" -> <<"tiny", "mp4">>
      [] f = "blip.v2.mp4" -> <<"blip", "v2", "mp4">>
      [] f = "broken.mp4" -> <<"broken", "mp4">>
      [] f = "flash.mp4" -> <<"flash", "mp4">>
      [] f = "clip.mp4" -> <<"clip", "mp4">>
      [] f = "wide.mp4" -> <<"wide", "mp4">>
      [] f = "odd.mp4" -> <<"odd", "mp4">>
      [] f = "sd.mp4" -> <<"sd", "mp4">>
      [] OTHER -> <<f>>

\* files that are not videos
OtherFiles == {"notes.txt", "raw.bin"}

\* file.type, the media type the browser reports: "type/subtype" is written
\* <<type, subtype>>, and the empty string of an unknown type <<"">>
FileType(f) ==
    CASE f = "notes.txt" -> <<"text", "plain">>
      [] f = "raw.bin" -> <<"">>
      [] OTHER -> <<"video", "mp4">>

StartsWithAnything(t) == TRUE
\* file.type.startsWith('video/')
StartsWithVideo(t) == Len(t) >= 2 /\ t[1] = "video"
\* whether the decoder fires loadedmetadata (TRUE) or error (FALSE)
Decodable(f) == f # "broken.mp4"
\* the durations the decoder reports, seconds: 0.25, 0.15, 0.05, 10, 62.5
\* and 1
Durations ==
    [f \in {"tiny.mp4", "blip.v2.mp4", "flash.mp4", "clip.mp4", "wide.mp4",
            "odd.mp4", "sd.mp4"} |->
        CASE f = "tiny.mp4" -> Dbl(1, 4)
          [] f = "blip.v2.mp4" -> Dbl(3, 20)
          [] f = "flash.mp4" -> Dbl(1, 20)
          [] f = "clip.mp4" -> FInt(10)
          [] f = "wide.mp4" -> Dbl(125, 2)
          [] OTHER -> FInt(1)]
\* video.duration, seconds
Duration(f) == IF f \in DOMAIN Durations THEN Durations[f] ELSE FZero
\* video.videoWidth, video.videoHeight
VideoWidth(f) ==
    CASE f = "blip.v2.mp4" -> 4
      [] f = "clip.mp4" -> 640
      [] f = "wide.mp4" -> 1920
      [] f = "odd.mp4" -> 7
      [] f = "sd.mp4" -> 360
      [] OTHER -> 8
VideoHeight(f) ==
    CASE f = "blip.v2.mp4" -> 2
      [] f = "clip.mp4" -> 480
      [] f = "wide.mp4" -> 1080
      [] f = "odd.mp4" -> 5
      [] f = "sd.mp4" -> 240
      [] OTHER -> 6


(***************************************************************************)
(* ProcessingStatus (src/types.ts) and the messages of App.tsx.            *)
(***************************************************************************)
IDLE == "IDLE"
LOADING_VIDEO == "LOADING_VIDEO"
EXTRACTING == "EXTRACTING"
ZIPPING == "ZIPPING"
COMPLETED == "COMPLETED"
ERROR == "ERROR"

MsgLoadFailed == "Failed to load video. Please try another file."
MsgExtractFailed == "Error during frame extraction."
NoMessage == Null
MsgLastFailed == "Could not extract the last frame."
MsgZipFailed == "Failed to create zip file."
MsgNotVideo == "Please upload a valid video file."

VARIABLES
    file,         \* App state: selected File name, or Null
    metadata,     \* App state: <<>> (null) or <<VideoMetadata>>
    status,       \* App state: ProcessingStatus
    progress,     \* App state: 0..100
    screenshots,  \* App state: the result set, a sequence of Screenshot
    errorMsg,     \* App state: message or Null
    mode,         \* App: "batch" or "last-frame"
    count,        \* App setting: frame count
    randomize,    \* App setting: jitter flag
    runs,         \* the handleProcess invocations, in start order
    selects,      \* the handleFileSelect invocations, in start order
    revokes,      \* revokes[id]: URL.revokeObjectURL calls on screenshot id's url
    videoUrls,    \* the object URLs made by loadVideo, in creation order
    faults,       \* host failures so far (no 2d context, throw, encoder refusal)
    mediaErrors,  \* 'error' events fired so far by videos that had loaded
    zips,         \* the handleDownload invocations awaiting zip.generateAsync
    stale,        \* <<>>, or <<the last render and the updates queued since>>
    saved,        \* the saveAs call of the last event handled: <<>> or <<call>>
    alert,        \* the alert() of the last event handled: its message, or Null
    plan          \* the planner, or the canvas, on its own: inputs and output

vars == <<file, metadata, status, progress, screenshots, errorMsg, mode,
          count, randomize, runs, selects, revokes, videoUrls, faults, mediaErrors, zips,
          stale, saved, alert, plan>>

appVars == <<file, metadata, status, progress, screenshots, errorMsg, mode,
             count, randomize, runs, selects, revokes, videoUrls, faults, mediaErrors,
             zips, stale, saved, alert>>

(***************************************************************************)
(* captureFrame: canvas dimensions; file names; progress.                  *)
(***************************************************************************)
ScaleFactorUnclamped(sc) == FDiv(FInt(sc), FInt(100))
\* Math.max(0.1, Math.min(1, scale / 100))
ScaleFactor(sc) ==
    FMax(Dbl(1, 10), FMin(FInt(1), FDiv(FInt(sc), FInt(100))))
\* canvas.width = Math.floor(video.videoWidth * scaleFactor)
CanvasWidth(f, sc) == FFloor(FMul(FInt(VideoWidth(f)), ScaleFactor(sc)))
\* canvas.height = Math.floor(video.videoHeight * scaleFactor)
CanvasHeight(f, sc) == FFloor(FMul(FInt(VideoHeight(f)), ScaleFactor(sc)))
\* canvas.toBlob hands null to its callback when the bitmap has no pixels
HasPixels(f, sc) == CanvasWidth(f, sc) > 0 /\ CanvasHeight(f, sc) > 0

Digit(k) == <<"0", "1", "2", "3", "4", "5", "6", "7", "8", "9">>[k + 1]
TwoDigits(k) == Digit((k \div 10) % 10) \o Digit(k % 10)
\* the hours, minutes and seconds of the ISO string of the instant `secs`
\* whole seconds after the epoch, joined by '-'
ClockStr[secs \in Int] ==
    TwoDigits((secs \div 3600) % 24) \o "-" \o
        TwoDigits((secs \div 60) % 60) \o "-" \o TwoDigits(secs % 60)

TimestampStrRounded(time) == ClockStr[FFloor(FAdd(time, Half))]
\* new Date(time * 1000).toISOString().substr(11, 8).replace(/:/g, '-'):
\* the Date keeps whole milliseconds, the string whole seconds
TimestampStr(time) == ClockStr[FTrunc(FMul(time, FInt(1000))) \div 1000]

ProgressPctFloor(done, cnt) ==
    FFloor(FMul(FDiv(FInt(done), FInt(cnt)), FInt(100)))
\* Math.round(((i + 1) / count) * 100), done = i + 1
ProgressPct(done, cnt) ==
    FRound(FMul(FDiv(FInt(done), FInt(cnt)), FInt(100)))

TargetTimeUnfloored(duration) == FSub(duration, EdgeMargin)
\* const targetTime = Math.max(0, video.duration - 0.1)
TargetTime(duration) == FMax(FZero, FSub(duration, EdgeMargin))

\* `frame_${timestampStr}.jpg` and `frame_last_${timestampStr}.jpg`
BatchFileName(time) == "frame_" \o TimestampStr(time) \o ".jpg"
LastFileName(time) == "frame_last_" \o TimestampStr(time) \o ".jpg"

(***************************************************************************)
(* Values computed once. The plans, target times, file names and           *)
(* percentages of the files, frame counts and draws of the application     *)
(* are kept in tables filled by the operators above.                       *)
(***************************************************************************)
\* the frame counts of the runs
RunCounts == (1..SoloMaxCount) \cup (1..MaxCount) \cup {SoloLongCount}
\* the files and settings of the runs; jitter is drawn for the short runs
RunSettings ==
    {<<f, c, FALSE>> : f \in DOMAIN Durations, c \in RunCounts}
        \cup {<<f, c, TRUE>> : f \in DOMAIN Durations,
                                c \in 1..PlanJitterMaxCount}

\* the settings with the draws of Math.random() that go with them
PlanKeys ==
    UNION {{<<st[1], st[2], st[3], rnds>> : rnds \in RandSeqs(st[2], st[3])} :
              st \in RunSettings}
PlanTable ==
    [key \in PlanKeys |-> Plan(Duration(key[1]), key[2], key[3], key[4])]
\* the timestamps extractFrames plans for the video of file f
PlanOf(f, cnt, jitter, rnds) == PlanTable[<<f, cnt, jitter, rnds>>]

TargetTable == [f \in DOMAIN Durations |-> TargetTime(Duration(f))]
\* the targetTime handleProcess computes for the video of file f
TargetTimeOf(f) == TargetTable[f]

\* the times the runs seek to
RunTimes ==
    UNION {UNION {{tb[key][k] : k \in 1..key[2]} : key \in DOMAIN tb} :
              tb \in {PlanTable}}
        \cup {TargetTimeOf(f) : f \in DOMAIN Durations}
FileNames ==
    [key \in BOOLEAN \X RunTimes |->
        IF key[1] THEN BatchFileName(key[2]) ELSE LastFileName(key[2])]
\* the fileName of the Screenshot captured at `time`
FileNameOf(isBatch, time) == FileNames[<<isBatch, time>>]

\* the attempts of the runs: number done, number planned
Attempts == UNION {{<<k, c>> : k \in 1..c} : c \in RunCounts}
ProgressTable == [a \in Attempts |-> ProgressPct(a[1], a[2])]
\* the percentage handed to onProgress after the attempt number done
ProgressOf(done, cnt) == ProgressTable[<<done, cnt>>]

\* a Screenshot; id stands for the uuid, the blob and the object URL made for it
Screenshot(id, time, name) == [id |-> id, timestamp |-> time, fileName |-> name]

(***************************************************************************)
(* The media handle (HTMLVideoElement) of one loadVideo call.              *)
(***************************************************************************)
\* document.createElement('video'), src set
NewVideo == [currentTime |-> FZero, seeking |-> 0, listeners |-> 0]

SeekVideoStale(v, time) ==
    [v EXCEPT !.seeking = @ + 1, !.listeners = @ + 1]
\* video.currentTime = time; video.addEventListener('seeked', onSeeked)
SeekVideo(v, time) ==
    [v EXCEPT !.currentTime = time, !.seeking = @ + 1, !.listeners = @ + 1]

SeekedVideoKeepsListener(v) == [v EXCEPT !.seeking = @ - 1]
\* the decoder fires 'seeked'; onSeeked removes itself and resolves
SeekedVideo(v) == [v EXCEPT !.seeking = @ - 1, !.listeners = @ - 1]

(***************************************************************************)
(* The useEffect cleanup of App: it runs when a render finds `screenshots` *)
(* replaced, and revokes the url of every Screenshot of the array of the   *)
(* render before.                                                          *)
(***************************************************************************)
\* revocations are counted up to RevokeCap
RevokeCap == 2
Bump(k) == IF k < RevokeCap THEN k + 1 ELSE k

InArray(arr, id) == \E j \in 1..Len(arr) : arr[j].id = id

\* screenshots.forEach(s => URL.revokeObjectURL(s.url))
Cleanup(old, rv) ==
    [k \in 1..Len(rv) |-> IF InArray(old, k) THEN Bump(rv[k]) ELSE rv[k]]

\* prev.filter(s => s.id !== id)
RECURSIVE FilterOut(_, _)
FilterOut(arr, id) ==
    IF arr = <<>> THEN <<>>
    ELSE IF arr[1].id # id THEN <<arr[1]>> \o FilterOut(Tail(arr), id)
    ELSE FilterOut(Tail(arr), id)

(***************************************************************************)
(* Rendering (React 19). A state setter queues an update: the variables    *)
(* file .. randomize hold the state with every queued update applied.      *)
(* Updates queued by a click, change or drop handler are rendered, with    *)
(* all that is queued, before the task of the event ends. Updates queued   *)
(* after an await are rendered by a task of the scheduler, and other       *)
(* events can be handled before it runs: the buttons, the gallery and the  *)
(* closures of the handlers are then those of the render before, kept in   *)
(* `stale` with the updates of setStatus, setScreenshots, setMetadata,     *)
(* setProgress and setErrorMsg undone (no update of file, mode, count or   *)
(* randomize is queued after an await).                                    *)
(***************************************************************************)
\* number of events handled between an update queued after an await and
\* the render that shows it
MaxStale == 1

\* the last render: what the page shows and what the handlers close over
Shown ==
    IF stale = <<>>
    THEN [status |-> status, screenshots |-> screenshots,
          metadata |-> metadata, progress |-> progress, errorMsg |-> errorMsg]
    ELSE stale[1].shown

\* setScreenshots has been called since the last render
Replaced == IF stale = <<>> THEN FALSE ELSE stale[1].replaced

\* the event is handled: no render is pending, or the scheduler has not
\* got to it yet
Deliverable == IF stale = <<>> THEN TRUE ELSE stale[1].age < MaxStale

\* the event is handled without an update being queued
NoUpdate ==
    stale' = IF stale = <<>> THEN <<>>
             ELSE <<[stale[1] EXCEPT !.age = @ + 1]>>

\* the event is handled after an await and queues updates; setsShots tells
\* that setScreenshots is among them
Queue(setsShots) ==
    stale' = IF stale = <<>>
             THEN <<[shown |-> Shown, replaced |-> setsShots, age |-> 0]>>
             ELSE <<[stale[1] EXCEPT !.age = @ + 1,
                                     !.replaced = @ \/ setsShots]>>

\* the event is handled by a click, change or drop handler that queues
\* updates: the render that follows, and the effect cleanup of the render
\* before if `screenshots` has been replaced; rv is revokes so far
Flush(setsShots, rv) ==
    /\ stale' = <<>>
    /\ revokes' = IF setsShots \/ Replaced
                  THEN Cleanup(Shown.screenshots, rv) ELSE rv

\* const isProcessing = status === EXTRACTING || ZIPPING || LOADING_VIDEO
isProcessing == Shown.status \in {EXTRACTING, ZIPPING, LOADING_VIDEO}

(***************************************************************************)
(* loadVideo, as called by the two handlers.                               *)
(***************************************************************************)
\* metadata: { duration, width, height, filename: file.name }
MetadataOf(f) ==
    [duration |-> Duration(f), width |-> VideoWidth(f),
     height |-> VideoHeight(f), filename |-> f]

\* const objectUrl = URL.createObjectURL(file): revoked counts the
\* revokeObjectURL calls on it, open tells that the handler that called
\* loadVideo has not returned yet, loaded that the video element it is the
\* src of has fired onloadedmetadata
NewUrl == [revoked |-> 0, open |-> TRUE, loaded |-> FALSE]
RevokeUrlSkipped(urls, u) == urls
\* URL.revokeObjectURL(objectUrl) / URL.revokeObjectURL(video.src)
RevokeUrl(urls, u) == [urls EXCEPT ![u].revoked = Bump(@)]
\* the handler that made url u returns
CloseUrl(urls, u) == [urls EXCEPT ![u].open = FALSE]
\* video.onloadedmetadata on the element of url u
LoadedUrl(urls, u) == [urls EXCEPT ![u].loaded = TRUE]

\* a handleFileSelect invocation suspended in `await loadVideo(selectedFile)`
NewSelect(f, u) == [file |-> f, pc |-> "loading", url |-> u]
\* what is left of a handleFileSelect invocation that has returned
DoneSelect == [file |-> Null, pc |-> "done", url |-> 0]

\* a handleProcess invocation suspended in `await loadVideo(file)`; the
\* closure holds the file, mode and settings of the render it was started
\* from. loads .. outcome record what the invocation has done so far, and
\* from the status it was called in: that of the render the click was made
\* in, whatever updates are queued.
NewRun(u) ==
    [file |-> file, mode |-> mode, count |-> count, randomize |-> randomize,
     from |-> Shown.status,
     pc |-> "loading", video |-> NewVideo, url |-> u,
     planned |-> FALSE, timestamps |-> <<>>, time |-> FZero,
     i |-> 0, shots |-> <<>>, progLog |-> <<>>, raster |-> <<>>,
     loads |-> 1, seeks |-> 0, seeked |-> 0, encodes |-> 0, attempts |-> 0,
     encodeNulls |-> 0, noSurface |-> 0, loadFailed |-> FALSE,
     threw |-> FALSE, outcome |-> "none"]

\* what is left of a handleProcess invocation that has returned, once the
\* next event is handled: its locals are garbage, its record is dropped
GoneRun ==
    [file |-> Null, mode |-> "batch", count |-> 0, randomize |-> FALSE,
     from |-> IDLE,
     pc |-> "gone", video |-> NewVideo, url |-> 0,
     planned |-> FALSE, timestamps |-> <<>>, time |-> FZero,
     i |-> 0, shots |-> <<>>, progLog |-> <<>>, raster |-> <<>>,
     loads |-> 0, seeks |-> 0, seeked |-> 0, encodes |-> 0, attempts |-> 0,
     encodeNulls |-> 0, noSurface |-> 0, loadFailed |-> FALSE,
     threw |-> FALSE, outcome |-> "none"]

Forget(rs) == [k \in 1..Len(rs) |-> IF rs[k].pc = "done" THEN GoneRun ELSE rs[k]]



\* the seek at the top of the loop body / of extractSpecificFrame
IssueSeek(run, time) ==
    [run EXCEPT !.time = time, !.video = SeekVideo(@, time),
                !.seeks = @ + 1, !.pc = "seeking"]

\* a step that shows no alert()
NoAlert == alert' = Null
\* a step that is not part of handleDownload: it calls saveAs for nothing
\* and leaves the pending archives alone
NoSave == saved' = <<>> /\ zips' = zips /\ NoAlert

(***************************************************************************)
(* User actions on the App.                                                *)
(***************************************************************************)
\* handleFileSelect up to its await (the uploader is rendered only if !file)
SelectFile(f) ==
    /\ NoSave
    /\ file = Null
    /\ Len(selects) < MaxSelects
    /\ file' = f
    /\ status' = LOADING_VIDEO
    /\ errorMsg' = Null
    /\ screenshots' = <<>>
    /\ Flush(TRUE, revokes)
    /\ videoUrls' = Append(videoUrls, NewUrl)
    /\ selects' = Append(selects, NewSelect(f, Len(videoUrls) + 1))
    /\ runs' = Forget(runs)
    /\ UNCHANGED <<metadata, progress, mode, count, randomize, faults, mediaErrors, plan>>

\* video.onloadedmetadata, then the rest of the try block of handleFileSelect
SelectLoaded(s) ==
    /\ NoSave
    /\ Deliverable
    /\ selects[s].pc = "loading"
    /\ Decodable(selects[s].file)
    /\ metadata' = <<MetadataOf(selects[s].file)>>
    /\ status' = IDLE
    /\ Queue(FALSE)
    /\ selects' = [selects EXCEPT ![s] = DoneSelect]
    /\ videoUrls' = CloseUrl(LoadedUrl(videoUrls, selects[s].url), selects[s].url)
    /\ runs' = Forget(runs)
    /\ UNCHANGED <<file, progress, screenshots, errorMsg, mode, count, randomize, revokes, faults, mediaErrors, plan>>

\* video.onerror, then the catch block of handleFileSelect
SelectLoadError(s) ==
    /\ NoSave
    /\ Deliverable
    /\ selects[s].pc = "loading"
    /\ ~Decodable(selects[s].file)
    /\ errorMsg' = MsgLoadFailed
    /\ status' = ERROR
    /\ Queue(FALSE)
    /\ selects' = [selects EXCEPT ![s] = DoneSelect]
    /\ videoUrls' = CloseUrl(RevokeUrl(videoUrls, selects[s].url), selects[s].url)
    /\ runs' = Forget(runs)
    /\ UNCHANGED <<file, metadata, progress, screenshots, mode, count, randomize, revokes, faults, mediaErrors, plan>>

\* onClick={() => !isProcessing && handleModeChange(m)}
ModeChange(m) ==
    /\ NoSave
    /\ Deliverable
    /\ ~isProcessing
    /\ mode # m
    /\ mode' = m
    /\ screenshots' = <<>>
    /\ Flush(TRUE, revokes)
    /\ errorMsg' = Null
    /\ status' = IDLE
    /\ runs' = Forget(runs)
    /\ UNCHANGED <<file, metadata, progress, count, randomize, selects, videoUrls, faults, mediaErrors, plan>>

\* VideoUploader's validateAndPass, reached from handleChange (the picker)
\* and handleDrop alike; the uploader is rendered while no file is selected.
\* A file of another type gets alert() and nothing else.
PickFile(f) ==
    /\ file = Null
    /\ Deliverable
    /\ IF StartsWithVideo(FileType(f))
       THEN SelectFile(f)
       ELSE /\ alert' = MsgNotVideo
            /\ saved' = <<>>
            /\ NoUpdate
            /\ runs' = Forget(runs)
            /\ UNCHANGED <<file, metadata, status, progress, screenshots,
                           errorMsg, mode, count, randomize, selects, revokes,
                           videoUrls, faults, mediaErrors, zips, plan>>

\* SettingsControls: the inputs are disabled while isProcessing; the count
\* and jitter controls are not rendered in last-frame mode
SetCount(c) ==
    /\ NoSave
    /\ Deliverable
    /\ ~isProcessing /\ mode = "batch"
    /\ c # count
    /\ count' = c
    /\ Flush(FALSE, revokes)
    /\ runs' = Forget(runs)
    /\ UNCHANGED <<file, metadata, status, progress, screenshots, errorMsg, mode, randomize, selects, videoUrls, faults, mediaErrors, plan>>

SetRandomize ==
    /\ NoSave
    /\ Deliverable
    /\ ~isProcessing /\ mode = "batch"
    /\ randomize' = ~randomize
    /\ Flush(FALSE, revokes)
    /\ runs' = Forget(runs)
    /\ UNCHANGED <<file, metadata, status, progress, screenshots, errorMsg,
                   mode, count, selects, videoUrls, faults, mediaErrors, plan>>

\* handleRemoveScreenshot, from the remove button of a frame of the gallery:
\* setScreenshots(prev => prev.filter(s => s.id !== id))
RemoveScreenshot(id) ==
    /\ NoSave
    /\ Deliverable
    /\ InArray(Shown.screenshots, id)
    /\ screenshots' = FilterOut(screenshots, id)
    /\ Flush(TRUE, revokes)
    /\ runs' = Forget(runs)
    /\ UNCHANGED <<file, metadata, status, progress, errorMsg, mode, count, randomize, selects, videoUrls, faults, mediaErrors, plan>>

\* handleReset (its button is rendered only while a file is selected)
Reset ==
    /\ NoSave
    /\ Deliverable
    /\ file # Null
    /\ file' = Null
    /\ metadata' = <<>>
    /\ screenshots' = <<>>
    /\ Flush(TRUE, revokes)
    /\ status' = IDLE
    /\ errorMsg' = Null
    /\ progress' = 0
    /\ runs' = Forget(runs)
    /\ UNCHANGED <<mode, count, randomize, selects, videoUrls, faults, mediaErrors, plan>>

\* handleProcess up to `await loadVideo(file)`
StartProcess ==
    /\ NoSave
    /\ Deliverable
    /\ file # Null
    /\ ~isProcessing
    /\ Len(runs) < MaxRuns
    /\ status' = EXTRACTING
    /\ progress' = 0
    /\ screenshots' = <<>>
    /\ Flush(TRUE, revokes)
    /\ errorMsg' = Null
    /\ videoUrls' = Append(videoUrls, NewUrl)
    /\ runs' = Append(Forget(runs), NewRun(Len(videoUrls) + 1))
    /\ UNCHANGED <<file, metadata, mode, count, randomize, selects, faults, mediaErrors, plan>>

(***************************************************************************)
(* A handleProcess invocation after its start: host events and the code    *)
(* that runs when each of them resumes the handler.                        *)
(***************************************************************************)
\* video.onerror during the run's loadVideo, then the catch block
RunLoadError(r) ==
    /\ NoSave
    /\ Deliverable
    /\ runs[r].pc = "loading"
    /\ ~Decodable(runs[r].file)
    /\ errorMsg' = MsgExtractFailed
    /\ status' = ERROR
    /\ Queue(FALSE)
    /\ runs' = [Forget(runs) EXCEPT ![r].pc = "done", ![r].loadFailed = TRUE,
                            ![r].outcome = ERROR]
    /\ videoUrls' = CloseUrl(RevokeUrl(videoUrls, runs[r].url), runs[r].url)
    /\ UNCHANGED <<file, metadata, progress, screenshots, mode, count,
                   randomize, selects, revokes, faults, mediaErrors, plan>>

\* video.onloadedmetadata during the run's loadVideo; batch: the planner and
\* the first seek of extractFrames; last-frame: targetTime and the seek of
\* extractSpecificFrame
RunLoaded(r) ==
    /\ NoSave
    /\ Deliverable
    /\ NoUpdate
    /\ runs[r].pc = "loading"
    /\ Decodable(runs[r].file)
    /\ videoUrls' = LoadedUrl(videoUrls, runs[r].url)
    /\ LET run == runs[r]
       IN  IF run.mode = "batch"
           THEN \E rnds \in RandSeqs(run.count, run.randomize) :
                \E ts \in {PlanOf(run.file, run.count, run.randomize, rnds)} :
                      runs' = [Forget(runs) EXCEPT ![r] =
                          IssueSeek([run EXCEPT !.planned = TRUE,
                                                !.timestamps = ts], ts[1])]
           ELSE runs' = [Forget(runs) EXCEPT ![r] =
                            IssueSeek(run, TargetTimeOf(run.file))]
    /\ UNCHANGED <<file, metadata, status, progress, screenshots, errorMsg,
                   mode, count, randomize, selects, revokes, faults, mediaErrors, plan>>

ThrownNoStatus(r, run) ==
    /\ errorMsg' = MsgExtractFailed
    /\ status' = status
    /\ runs' = [Forget(runs) EXCEPT ![r] =
                   [run EXCEPT !.pc = "done", !.threw = TRUE, !.outcome = ERROR]]
    /\ videoUrls' = CloseUrl(videoUrls, run.url)
    /\ Queue(FALSE)
    /\ UNCHANGED <<progress, screenshots, revokes>>
\* the catch block of handleProcess after an exception inside the capture
Thrown(r, run) ==
    /\ errorMsg' = MsgExtractFailed
    /\ status' = ERROR
    /\ runs' = [Forget(runs) EXCEPT ![r] =
                   [run EXCEPT !.pc = "done", !.threw = TRUE, !.outcome = ERROR]]
    /\ videoUrls' = CloseUrl(videoUrls, run.url)
    /\ Queue(FALSE)
    /\ UNCHANGED <<progress, screenshots, revokes>>

\* the last statements of the try block of handleProcess:
\* setStatus(COMPLETED); URL.revokeObjectURL(video.src); video.remove()
CompletedUnlessSkipped(run) ==
    [run EXCEPT !.pc = "done",
                !.outcome = IF Len(run.shots) < run.attempts THEN ERROR
                            ELSE COMPLETED]
Completed(run) == [run EXCEPT !.pc = "done", !.outcome = COMPLETED]
ReleaseVideo(u) == CloseUrl(RevokeUrl(videoUrls, u), u)

MoreFramesStopsEarly(run) == run.i + 2 < Len(run.timestamps)
\* the loop condition of extractFrames after i++: i < timestamps.length
MoreFrames(run) == run.i + 1 < Len(run.timestamps)

\* what follows `const { blob } = await captureFrame(video, scale)`:
\* the `if (blob)` block, the progress report, and either the next seek or
\* the return to handleProcess with its last statements; each setter call
\* queues its update
AfterCapture(r, run, gotBlob) ==
    \E name \in {FileNameOf(run.mode = "batch", run.time)} :
    \E pct \in {IF run.mode = "batch" THEN ProgressOf(run.i + 1, run.count)
                 ELSE 100} :
    LET id == Len(revokes) + 1
        isBatch == run.mode = "batch"
        shot == Screenshot(id, run.time, name)
        shots1 == IF gotBlob THEN Append(run.shots, shot) ELSE run.shots
        rv1 == IF gotBlob THEN Append(revokes, 0) ELSE revokes
        run1 == [run EXCEPT !.shots = shots1, !.attempts = @ + 1]
    IN  IF isBatch
        THEN LET run2 == [run1 EXCEPT !.progLog = Append(@, pct)]
             IN  /\ progress' = pct
                 /\ IF MoreFrames(run)
                    THEN /\ runs' = [Forget(runs) EXCEPT ![r] =
                                IssueSeek([run2 EXCEPT !.i = @ + 1],
                                          run.timestamps[run.i + 2])]
                         /\ revokes' = rv1
                         /\ Queue(FALSE)
                         /\ UNCHANGED <<screenshots, status, errorMsg, videoUrls>>
                    ELSE /\ runs' = [Forget(runs) EXCEPT ![r] = Completed(run2)]
                         /\ screenshots' = shots1
                         /\ revokes' = rv1
                         /\ Queue(TRUE)
                         /\ status' = Completed(run2).outcome
                         /\ videoUrls' = ReleaseVideo(run.url)
                         /\ UNCHANGED errorMsg
        ELSE /\ progress' = 100
             /\ runs' = [Forget(runs) EXCEPT ![r] = Completed(run1)]
             /\ status' = Completed(run1).outcome
             /\ videoUrls' = ReleaseVideo(run.url)
             /\ Queue(gotBlob)
             /\ revokes' = rv1
             /\ IF gotBlob
                THEN /\ screenshots' = shots1
                     /\ UNCHANGED errorMsg
                ELSE /\ errorMsg' = MsgLastFailed
                     /\ UNCHANGED screenshots

\* a host failure may still be injected
MayFail == faults < MaxFaults

\* the decoder fires 'seeked'; the handler resumes into captureFrame:
\* getContext('2d') may give null, drawImage may throw, else toBlob is pending
RunSeeked(r, ctx) ==
    /\ NoSave
    /\ Deliverable
    /\ runs[r].pc = "seeking"
    /\ runs[r].video.seeking > 0
    /\ ctx # "ok" => MayFail
    /\ faults' = IF ctx = "ok" THEN faults ELSE faults + 1
    /\ UNCHANGED mediaErrors
    /\ LET run0 == runs[r]
           v == SeekedVideo(run0.video)
           run == [run0 EXCEPT !.video = v, !.seeked = @ + 1]
       IN  CASE ctx = "ok" ->
                  /\ runs' = [Forget(runs) EXCEPT ![r] =
                        [run EXCEPT !.pc = "encoding", !.encodes = @ + 1,
                                    !.raster = Append(@,
                                        [i |-> run.i, time |-> run.time,
                                         pos |-> v.currentTime,
                                         pending |-> v.seeking,
                                         seeks |-> run.seeks,
                                         seeked |-> run.seeked])]]
                  /\ NoUpdate
                  /\ UNCHANGED <<status, progress, screenshots, errorMsg,
                                 revokes, videoUrls>>
             [] ctx = "null" ->
                  AfterCapture(r, [run EXCEPT !.noSurface = @ + 1], FALSE)
             [] OTHER -> Thrown(r, run)
    /\ UNCHANGED <<file, metadata, mode, count, randomize, selects, plan>>

\* video.onerror once the metadata has loaded: loadVideo's handler stays set
\* on the element of url u, whether the handler that loaded it goes on, has
\* returned or has thrown, so a media error revokes the object URL; its
\* reject() finds the promise settled, and nothing else happens
MediaError(u) ==
    /\ NoSave
    /\ Deliverable
    /\ NoUpdate
    /\ videoUrls[u].loaded
    /\ mediaErrors < MaxMediaErrors
    /\ mediaErrors' = mediaErrors + 1
    /\ videoUrls' = RevokeUrl(videoUrls, u)
    /\ runs' = Forget(runs)
    /\ UNCHANGED <<file, metadata, status, progress, screenshots, errorMsg,
                   mode, count, randomize, selects, revokes, faults, plan>>

\* canvas.toBlob calls back, with a Blob or with null
RunEncoded(r, gotBlob) ==
    /\ NoSave
    /\ Deliverable
    /\ runs[r].pc = "encoding"
    /\ ~gotBlob => MayFail
    /\ faults' = IF gotBlob THEN faults ELSE faults + 1
    /\ UNCHANGED mediaErrors
    /\ AfterCapture(r, [runs[r] EXCEPT !.encodeNulls =
                                       IF gotBlob THEN @ ELSE @ + 1], gotBlob)
    /\ UNCHANGED <<file, metadata, mode, count, randomize, selects, plan>>

(***************************************************************************)
(* handleDownload.                                                         *)
(***************************************************************************)
\* zip.file(name, blob): JSZip keeps one entry per name, a second file of
\* the same name replaces the first
ZipFile(zip, name, id) ==
    IF \E k \in 1..Len(zip) : zip[k].name = name
    THEN [k \in 1..Len(zip) |->
             IF zip[k].name = name THEN [name |-> name, id |-> id] ELSE zip[k]]
    ELSE Append(zip, [name |-> name, id |-> id])

RECURSIVE ZipFiles(_)
\* screenshots.forEach((shot) => { zip.file(shot.fileName, shot.blob) })
ZipFiles(shots) ==
    IF shots = <<>> THEN <<>>
    ELSE LET last == shots[Len(shots)]
         IN  ZipFile(ZipFiles(SubSeq(shots, 1, Len(shots) - 1)),
                     last.fileName, last.id)

\* const suffix = mode === 'batch' ? 'previews' : 'last_frame'
ZipSuffix(m) == IF m = "batch" THEN "previews" ELSE "last_frame"
\* metadata ? `${metadata.filename.split('.')[0]}_${suffix}.zip`
\*          : `frame_scout_${suffix}.zip`
ZipName(md, m) ==
    IF md # <<>> THEN SplitDot(md[1].filename)[1] \o "_" \o ZipSuffix(m) \o ".zip"
    ELSE "frame_scout_" \o ZipSuffix(m) \o ".zip"

\* a saveAs(data, name) call: by names the caller, kind tells a Screenshot's
\* blob from an archive, entries is what the data holds, shots, mode and
\* metadata are the values of the render the caller was called from
SaveAs(by, kind, name, entries, shots, m, md) ==
    [by |-> by, kind |-> kind, name |-> name, entries |-> entries,
     shots |-> shots, mode |-> m, metadata |-> md]

\* the archive button is rendered when there are screenshots and disabled
\* while ZIPPING
CanDownload == Len(Shown.screenshots) > 0 /\ Shown.status # ZIPPING

\* the sequence s without its k-th element
Without(s, k) == SubSeq(s, 1, k - 1) \o SubSeq(s, k + 1, Len(s))

\* handleDownload up to its return (one screenshot) or its await (several)
Download ==
    /\ CanDownload
    /\ Deliverable
    /\ \E shots \in {Shown.screenshots} :
       IF Len(shots) = 1
       THEN /\ saved' = <<SaveAs("handleDownload", "file", shots[1].fileName,
                                 <<[name |-> shots[1].fileName,
                                    id |-> shots[1].id]>>,
                                 shots, mode, Shown.metadata)>>
            /\ NoUpdate
            /\ UNCHANGED <<status, zips, revokes>>
       ELSE /\ Len(zips) < MaxZips
            /\ status' = ZIPPING
            /\ Flush(FALSE, revokes)
            /\ zips' = Append(zips, [entries |-> ZipFiles(shots),
                                     shots |-> shots, mode |-> mode,
                                     metadata |-> Shown.metadata])
            /\ saved' = <<>>
    /\ runs' = Forget(runs)
    /\ NoAlert
    /\ UNCHANGED <<file, metadata, progress, screenshots, errorMsg, mode,
                   count, randomize, selects, videoUrls, faults, mediaErrors, plan>>

\* Gallery, the "Download Image" button of the k-th frame shown:
\* saveAs(shot.blob, shot.fileName)
DownloadImage(k) ==
    /\ k \in 1..Len(Shown.screenshots)
    /\ Deliverable
    /\ NoUpdate
    /\ \E shots \in {Shown.screenshots} :
           saved' = <<SaveAs("Gallery", "file", shots[k].fileName,
                             <<[name |-> shots[k].fileName,
                                id |-> shots[k].id]>>,
                             shots, mode, Shown.metadata)>>
    /\ runs' = Forget(runs)
    /\ NoAlert
    /\ UNCHANGED <<file, metadata, status, progress, screenshots, errorMsg,
                   mode, count, randomize, selects, revokes, videoUrls,
                   faults, mediaErrors, zips, plan>>

\* zip.generateAsync resolves: saveAs(content, zipName); setStatus(COMPLETED)
ZipDone(z) ==
    /\ saved' = <<SaveAs("handleDownload", "zip",
                         ZipName(zips[z].metadata, zips[z].mode),
                         zips[z].entries, zips[z].shots, zips[z].mode,
                         zips[z].metadata)>>
    /\ Deliverable
    /\ status' = COMPLETED
    /\ Queue(FALSE)
    /\ zips' = Without(zips, z)
    /\ runs' = Forget(runs)
    /\ NoAlert
    /\ UNCHANGED <<file, metadata, progress, screenshots, errorMsg, mode,
                   count, randomize, selects, revokes, videoUrls, faults, mediaErrors, plan>>

ZipFailedClearing(z) ==
    /\ MayFail
    /\ Deliverable
    /\ faults' = faults + 1
    /\ UNCHANGED mediaErrors
    /\ errorMsg' = MsgZipFailed
    /\ status' = ERROR
    /\ Queue(FALSE)
    /\ zips' = Without(zips, z)
    /\ saved' = <<>>
    /\ runs' = Forget(runs)
    /\ NoAlert
    /\ screenshots' = <<>>
    /\ UNCHANGED <<file, metadata, progress, mode,
                   count, randomize, selects, revokes, videoUrls, plan>>
\* zip.generateAsync rejects: the catch block of handleDownload
ZipFailed(z) ==
    /\ MayFail
    /\ Deliverable
    /\ faults' = faults + 1
    /\ UNCHANGED mediaErrors
    /\ errorMsg' = MsgZipFailed
    /\ status' = ERROR
    /\ Queue(FALSE)
    /\ zips' = Without(zips, z)
    /\ saved' = <<>>
    /\ runs' = Forget(runs)
    /\ NoAlert
    /\ UNCHANGED <<file, metadata, progress, screenshots, mode,
                   count, randomize, selects, revokes, videoUrls, plan>>

(***************************************************************************)
(* The scheduler's render task.                                            *)
(***************************************************************************)
\* React renders App with the queued updates applied; if `screenshots` has
\* been replaced, the effect cleanup of the render before runs:
\* screenshots.forEach(s => URL.revokeObjectURL(s.url))
Render ==
    /\ stale # <<>>
    /\ stale' = <<>>
    /\ revokes' = IF Replaced THEN Cleanup(Shown.screenshots, revokes)
                  ELSE revokes
    /\ UNCHANGED <<file, metadata, status, progress, screenshots, errorMsg,
                   mode, count, randomize, runs, selects, videoUrls, faults, mediaErrors,
                   zips, saved, alert, plan>>

(***************************************************************************)
(* The application.                                                        *)
(***************************************************************************)
NoPlan == [phase |-> "off"]

Init ==
    /\ file = Null
    /\ metadata = <<>>
    /\ status = IDLE
    /\ progress = 0
    /\ screenshots = <<>>
    /\ errorMsg = Null
    /\ mode = "batch"
    /\ count \in 1..MaxCount
    /\ randomize \in BOOLEAN
    /\ runs = <<>>
    /\ selects = <<>>
    /\ revokes = <<>>
    /\ videoUrls = <<>>
    /\ faults = 0
    /\ mediaErrors = 0
    /\ zips = <<>>
    /\ stale = <<>>
    /\ saved = <<>>
    /\ alert = Null
    /\ plan = NoPlan

\* the handleFileSelect and handleProcess invocations so far
Handlers == Len(selects) + Len(runs)

Next ==
    \/ \E f \in VideoFiles \cup OtherFiles : Handlers < MaxHandlers /\ PickFile(f)
    \/ \E s \in 1..Len(selects) : SelectLoaded(s)
    \/ \E s \in 1..Len(selects) : SelectLoadError(s)
    \/ \E m \in {"batch", "last-frame"} : ModeChange(m)
    \/ \E c \in 1..MaxCount : SetCount(c)
    \/ SetRandomize
    \/ \E id \in 1..Len(revokes) : RemoveScreenshot(id)
    \/ Reset
    \/ Handlers < MaxHandlers /\ StartProcess
    \/ \E r \in 1..Len(runs) : RunLoaded(r)
    \/ \E r \in 1..Len(runs) : RunLoadError(r)
    \/ \E r \in 1..Len(runs) : \E ctx \in {"ok", "null", "throw"} : RunSeeked(r, ctx)
    \/ \E r \in 1..Len(runs) : \E b \in BOOLEAN : RunEncoded(r, b)
    \/ \E u \in 1..Len(videoUrls) : MediaError(u)
    \/ Download
    \/ \E k \in 1..Len(Shown.screenshots) : DownloadImage(k)
    \/ Render
    \/ \E z \in 1..Len(zips) : ZipDone(z)
    \/ \E z \in 1..Len(zips) : ZipFailed(z)

Spec == Init /\ [][Next]_vars

(***************************************************************************)
(* Two selections with a reset in between: the handlers started for the    *)
(* first file go on while those of the second run.                         *)
(***************************************************************************)
NextOverlap ==
    \/ \E f \in VideoFiles : PickFile(f)
    \/ \E s \in 1..Len(selects) : SelectLoaded(s)
    \/ \E s \in 1..Len(selects) : SelectLoadError(s)
    \/ Reset
    \/ StartProcess
    \/ \E r \in 1..Len(runs) : RunLoaded(r)
    \/ \E r \in 1..Len(runs) : RunLoadError(r)
    \/ \E r \in 1..Len(runs) : \E ctx \in {"ok", "null", "throw"} : RunSeeked(r, ctx)
    \/ \E r \in 1..Len(runs) : \E b \in BOOLEAN : RunEncoded(r, b)
    \/ \E u \in 1..Len(videoUrls) : MediaError(u)
    \/ Render

SpecOverlap == Init /\ [][NextOverlap]_vars

(***************************************************************************)
(* One file selection followed by one extraction, with the frame count,    *)
(* one up to SoloMaxCount or SoloLongCount, read from the saved settings   *)
(* at construction.                                                        *)
(***************************************************************************)
InitSolo ==
    /\ file = Null
    /\ metadata = <<>>
    /\ status = IDLE
    /\ progress = 0
    /\ screenshots = <<>>
    /\ errorMsg = Null
    /\ mode = "batch"
    /\ count \in (1..SoloMaxCount) \cup {SoloLongCount}
    /\ randomize \in BOOLEAN
    /\ randomize => count <= PlanJitterMaxCount
    /\ runs = <<>>
    /\ selects = <<>>
    /\ revokes = <<>>
    /\ videoUrls = <<>>
    /\ faults = 0
    /\ mediaErrors = 0
    /\ zips = <<>>
    /\ stale = <<>>
    /\ saved = <<>>
    /\ alert = Null
    /\ plan = NoPlan

\* the files of the single extraction: videos of 0.15 s, 0.05 s and 10 s
\* besides the others
SoloFiles == VideoFiles \cup {"blip.v2.mp4", "flash.mp4", "clip.mp4"}

NextSolo ==
    \/ \E f \in SoloFiles \cup OtherFiles : Len(selects) = 0 /\ PickFile(f)
    \/ \E s \in 1..Len(selects) : SelectLoaded(s)
    \/ \E s \in 1..Len(selects) : SelectLoadError(s)
    \/ \E m \in {"batch", "last-frame"} : ModeChange(m)
    \/ Len(runs) = 0 /\ StartProcess
    \/ \E r \in 1..Len(runs) : RunLoaded(r)
    \/ \E r \in 1..Len(runs) : RunLoadError(r)
    \/ \E r \in 1..Len(runs) : \E ctx \in {"ok", "null", "throw"} : RunSeeked(r, ctx)
    \/ \E r \in 1..Len(runs) : \E b \in BOOLEAN : RunEncoded(r, b)
    \/ \E u \in 1..Len(videoUrls) : MediaError(u)
    \/ Download
    \/ \E k \in 1..Len(Shown.screenshots) : DownloadImage(k)
    \/ Render
    \/ \E z \in 1..Len(zips) : ZipDone(z)
    \/ \E z \in 1..Len(zips) : ZipFailed(z)

SpecSolo == InitSolo /\ [][NextSolo]_vars

(***************************************************************************)
(* One run with a host that answers: every promise the run awaits is       *)
(* settled in the end, and the scheduler gets to its render task.          *)
(* loadVideo's promise is settled by onloadedmetadata or onerror, a seek's *)
(* by 'seeked', toBlob's by its callback. The user's actions are under no  *)
(* such obligation.                                                        *)
(***************************************************************************)
HostLoadErrors == \E r \in 1..Len(runs) : RunLoadError(r)
HostLoads == \E r \in 1..Len(runs) : RunLoaded(r)
HostSeeks ==
    \E r \in 1..Len(runs) : \E ctx \in {"ok", "null", "throw"} : RunSeeked(r, ctx)
HostEncodes == \E r \in 1..Len(runs) : \E b \in BOOLEAN : RunEncoded(r, b)

\* what a run is waiting for: each is the condition under which the host
\* event of that kind can fire, ENABLED <<Host...>>_vars
LoadPending ==
    /\ Deliverable
    /\ \E r \in 1..Len(runs) : runs[r].pc = "loading" /\ Decodable(runs[r].file)
SeekPending ==
    /\ Deliverable
    /\ \E r \in 1..Len(runs) : runs[r].pc = "seeking" /\ runs[r].video.seeking > 0
EncodePending ==
    /\ Deliverable
    /\ \E r \in 1..Len(runs) : runs[r].pc = "encoding"

\* weak fairness of every kind of host event and of the render task:
\* WF_vars(HostLoadErrors), WF_vars(HostLoads), WF_vars(HostSeeks),
\* WF_vars(HostEncodes) and WF_vars(Render), the last four with ENABLED
\* written out as a state predicate
SpecSoloFair ==
    /\ SpecSolo
    /\ WF_vars(HostLoadErrors)
    /\ ([]<>(stale = <<>>) \/ []<><<Render>>_vars)
    /\ ([]<>(~LoadPending) \/ []<><<HostLoads>>_vars)
    /\ ([]<>(~SeekPending) \/ []<><<HostSeeks>>_vars)
    /\ ([]<>(~EncodePending) \/ []<><<HostEncodes>>_vars)

(***************************************************************************)
(* The planner on its own: the timestamp computation of extractFrames is   *)
(* applied twice to one input, each time with its own draws of             *)
(* Math.random().                                                          *)
(***************************************************************************)
\* 0.05, 0.15, 0.2, 0.25, 1, 10, 62.5, 7325 and 180000 s
PlanDurations ==
    {Dbl(1, 20), Dbl(3, 20), Dbl(1, 5), Dbl(1, 4), FInt(1), FInt(10),
     Dbl(125, 2), FInt(7325), FInt(180000)}
\* a longer plan besides, of 30 s in PlanLongCount frames: its 11th
\* candidate, (30 / 22) * 11, falls just under 15 s
PlanLongCount == 21

\* raw: the candidates before clamping; out: the timestamps; names: the
\* fileName extractFrames gives the Screenshot of each timestamp; lastName:
\* the fileName extractSpecificFrame gives the Screenshot of the target time
PlanInputs ==
    {[phase |-> "in", duration |-> dc[1], count |-> dc[2], randomize |-> j,
      first |-> <<>>, raw |-> <<>>, out |-> <<>>, names |-> <<>>,
      lastName |-> ""] :
        dc \in ({FInt(30)} \X {PlanLongCount})
                 \cup (PlanDurations \X (1..PlanMaxCount)),
        j \in BOOLEAN}

\* Math.random() is below 1; 0.99 stands for its largest values
PlanRandVals ==
    {Dbl(k, PlanRandDen) : k \in 0..(PlanRandDen - 1)} \cup {Dbl(99, 100)}
\* what Math.random() gives, or would give, for each candidate of one call
\* of the planner: any draws with jitter; without jitter the source is in
\* any state too, here one that gives the same value every time
PlanRandSeqs(cnt, jitter) ==
    IF jitter THEN [1..cnt -> PlanRandVals]
    ELSE {[k \in 1..cnt |-> v] : v \in PlanRandVals}

\* one call of the planner on the input p with the draws rnds, followed by
\* the naming of the Screenshots
Planned(p, rnds) ==
    LET ts == Plan(p.duration, p.count, p.randomize, rnds)
    IN  [p EXCEPT !.raw = Candidates(p.duration, p.count, p.randomize, rnds),
                  !.out = ts,
                  !.names = [k \in 1..Len(ts) |-> BatchFileName(ts[k])],
                  !.lastName = LastFileName(TargetTime(p.duration))]

InitPlan ==
    /\ file = Null
    /\ metadata = <<>>
    /\ status = IDLE
    /\ progress = 0
    /\ screenshots = <<>>
    /\ errorMsg = Null
    /\ mode = "batch"
    /\ count = 1
    /\ randomize = FALSE
    /\ runs = <<>>
    /\ selects = <<>>
    /\ revokes = <<>>
    /\ videoUrls = <<>>
    /\ faults = 0
    /\ mediaErrors = 0
    /\ zips = <<>>
    /\ stale = <<>>
    /\ saved = <<>>
    /\ alert = Null
    /\ plan \in {p \in PlanInputs : p.randomize => p.count <= PlanJitterMaxCount}

\* the first call
PlanFirst ==
    /\ plan.phase = "in"
    /\ \E rnds \in PlanRandSeqs(plan.count, plan.randomize) :
         plan' = [Planned(plan, rnds) EXCEPT !.phase = "once"]
    /\ UNCHANGED appVars

\* a second call with the same duration, count and jitter flag, the random
\* source being in a state of its own
PlanAgain ==
    /\ plan.phase = "once"
    /\ \E rnds \in PlanRandSeqs(plan.count, plan.randomize) :
         plan' = [Planned(plan, rnds) EXCEPT !.phase = "twice",
                                             !.first = plan.out]
    /\ UNCHANGED appVars

NextPlan == PlanFirst \/ PlanAgain

SpecPlan == InitPlan /\ [][NextPlan]_vars

(***************************************************************************)
(* captureFrame's canvas on its own: the dimensions it gives the canvas     *)
(* for a video and a scale setting. The setting is a percentage; the slider *)
(* offers 10..100, the value restored from localStorage is whatever was     *)
(* stored.                                                                 *)
(***************************************************************************)
CaptureFiles ==
    {"tiny.mp4", "blip.v2.mp4", "clip.mp4", "wide.mp4", "odd.mp4", "sd.mp4"}
CaptureScales == {-50, 0, 5, 10, 15, 33, 50, 70, 90, 99, 100, 101, 250}

InitCapture ==
    /\ file = Null
    /\ metadata = <<>>
    /\ status = IDLE
    /\ progress = 0
    /\ screenshots = <<>>
    /\ errorMsg = Null
    /\ mode = "batch"
    /\ count = 1
    /\ randomize = FALSE
    /\ runs = <<>>
    /\ selects = <<>>
    /\ revokes = <<>>
    /\ videoUrls = <<>>
    /\ faults = 0
    /\ mediaErrors = 0
    /\ zips = <<>>
    /\ stale = <<>>
    /\ saved = <<>>
    /\ alert = Null
    /\ plan \in {[phase |-> "blank", file |-> f, scale |-> sc,
                   width |-> 0, height |-> 0] :
                      f \in CaptureFiles, sc \in CaptureScales}

\* canvas.width = ...; canvas.height = ...
SizeCanvas ==
    /\ plan.phase = "blank"
    /\ plan' = [plan EXCEPT !.phase = "sized",
                            !.width = CanvasWidth(plan.file, plan.scale),
                            !.height = CanvasHeight(plan.file, plan.scale)]
    /\ UNCHANGED appVars

NextCapture == SizeCanvas

SpecCapture == InitCapture /\ [][NextCapture]_vars

(***************************************************************************)
(* Properties.                                                             *)
(***************************************************************************)
\* i * duration / (count + 1), evaluated left to right in doubles
EvenSplit(d, c, i) == FDiv(FMul(FInt(i), d), FInt(c + 1))
\* x held inside [0.1, duration - 0.1]; the lower end wins when the two cross
Held(d, x) ==
    LET lo == EdgeMargin
        hi == FSub(d, EdgeMargin)
    IN  IF FLt(x, lo) \/ FLt(hi, lo) THEN lo
        ELSE IF FLt(hi, x) THEN hi ELSE x
\* 2^-50: four units in the last place of a double in [1, 2)
RoundOff == [sg |-> 1, m |-> <<1>>, e |-> -50]
\* a and b are the same number up to the rounding of their operations
Near(a, b) == FLe(FAbs(FSub(a, b)), FMul(FAbs(b), RoundOff))
\* max(0, D - 0.1), written out
LastTarget(d) == IF FLe(EdgeMargin, d) THEN FSub(d, EdgeMargin) ELSE FZero
\* the shortest video both margins fit in: 0.2 s
MinSpan == Dbl(1, 5)

\* the step, a double, multiplied by i: (duration / (count + 1)) * i
StepMultiple(d, c, i) == FMul(FDiv(d, FInt(c + 1)), FInt(i))

\* C2 as stated: without jitter the planner yields exactly count timestamps,
\* the i-th equal to i*duration/(count+1) held inside [0.1, duration-0.1],
\* and a second plan for the same duration and count yields the same list.
C2_AsStated ==
    (plan.phase \in {"once", "twice"} /\ ~plan.randomize) =>
        /\ Len(plan.out) = plan.count
        /\ \A i \in 1..plan.count :
             plan.out[i] =
                 Held(plan.duration, EvenSplit(plan.duration, plan.count, i))
        /\ plan.phase = "twice" => plan.first = plan.out

\* C2, amended: without jitter the planner yields exactly count timestamps,
\* the i-th being the double (duration/(count+1))*i held inside
\* [0.1, duration-0.1], which is i*duration/(count+1) up to the rounding of
\* a double and not always that value; and a second plan for the same
\* duration and count yields the same list, whatever the random source
\* would give.
C2_PlanEvenAndDeterministic ==
    (plan.phase \in {"once", "twice"} /\ ~plan.randomize) =>
        /\ Len(plan.out) = plan.count
        /\ \A i \in 1..plan.count :
             /\ plan.out[i] =
                    Held(plan.duration,
                         StepMultiple(plan.duration, plan.count, i))
             /\ Near(plan.out[i],
                     Held(plan.duration,
                          EvenSplit(plan.duration, plan.count, i)))
        /\ plan.phase = "twice" => plan.first = plan.out

\* a 30 s video planned twice for 21 frames: the 11th timestamp is
\* 14.999999999999998 both times, 2^-49 under 15, which is 11 * 30 / 22
C2_Witness ==
    /\ plan.phase = "twice" /\ ~plan.randomize
    /\ plan.duration = FInt(30) /\ plan.count = 21
    /\ EvenSplit(plan.duration, plan.count, 11) = FInt(15)
    /\ plan.out[11] = FSub(FInt(15), [sg |-> 1, m |-> <<1>>, e |-> -49])
    /\ plan.first = plan.out

\* the handleProcess invocations whose record is still held
Live == {r \in 1..Len(runs) : runs[r].pc # "gone"}

\* C1: a batch run works through its timestamps one at a time on its media
\* handle: at most one seek is outstanding, the seek for the next timestamp
\* is issued only after the capture and encode of the previous one have
\* finished, and every frame is rasterized after the seeked event of its own
\* timestamp with the media positioned at that timestamp.
C1_SequentialSeeks ==
    \A r \in Live :
        LET run == runs[r] IN
        /\ run.video.seeking <= 1
        /\ run.video.listeners <= 1
        /\ run.seeks <= run.attempts + 1
        /\ run.pc = "encoding" => run.video.seeking = 0 /\ run.seeks = run.attempts + 1
        /\ run.pc = "seeking" => run.seeks = run.attempts + 1
        /\ \A k \in 1..Len(run.raster) :
             LET ra == run.raster[k] IN
             /\ ra.pos = ra.time
             /\ ra.pending = 0
             /\ ra.seeked = ra.seeks
             /\ ra.seeks = ra.i + 1
             /\ run.mode = "batch" => ra.time = run.timestamps[ra.i + 1]

\* a batch run that has rasterized two frames at two different positions
C1_Witness ==
    \E r \in Live :
        /\ runs[r].mode = "batch" /\ runs[r].pc = "done"
        /\ Len(runs[r].raster) = 2
        /\ runs[r].raster[1].pos # runs[r].raster[2].pos
        /\ Len(runs[r].shots) = 2

\* 0.1 <= t <= duration - 0.1
InsideMargins(t, d) == FLe(EdgeMargin, t) /\ FLe(t, FSub(d, EdgeMargin))

\* the Screenshots a live invocation has produced lie inside the margins
ShotsInside(run) ==
    \A k \in 1..Len(run.shots) :
        InsideMargins(run.shots[k].timestamp, Duration(run.file))

\* C3 as stated: every Screenshot produced by the batch extraction or by the
\* last-frame extraction has a timestamp in [0.1, duration-0.1], whatever
\* the duration of the video, the count and the jitter flag.
C3_AsStated == \A r \in Live : ShotsInside(runs[r])

\* C3, amended: every Screenshot produced by the batch extraction or by the
\* last-frame extraction of a video of at least 0.2 s has a timestamp in
\* [0.1, duration-0.1], for every count and with or without jitter.
C3_TimestampsInsideMargins ==
    \A r \in Live :
        (runs[r].file # Null /\ FLe(MinSpan, Duration(runs[r].file)))
            => ShotsInside(runs[r])

\* a jittered batch run on the 0.25 s video whose two Screenshots sit on the
\* two margins, 0.1 and 0.25 - 0.1
C3_Witness ==
    \E r \in Live :
        /\ runs[r].file = "tiny.mp4" /\ runs[r].mode = "batch"
        /\ runs[r].randomize
        /\ Len(runs[r].shots) = 2
        /\ runs[r].shots[1].timestamp = EdgeMargin
        /\ runs[r].shots[2].timestamp = FSub(Duration("tiny.mp4"), EdgeMargin)

\* p is a whole number nearest to 100 * k / cnt; a half may go either way
\* (23 of 40 is reported as 57: the quotient in doubles is just under 57.5)
NearestPct(p, k, cnt) == 2 * Abs(p * cnt - 100 * k) <= cnt

\* C4: a batch run that is not aborted by an exception reports progress
\* exactly count times, once after each attempt whether it produced a frame
\* or not, the k-th value being round(k/count*100), the whole number
\* nearest to the percentage; the values never decrease, the first is above
\* 0 and the last is 100.
C4_ProgressReports ==
    \A r \in Live :
        LET run == runs[r] IN
        run.mode = "batch" =>
            /\ Len(run.progLog) = run.attempts
            /\ \A k \in 1..Len(run.progLog) :
                 /\ NearestPct(run.progLog[k], k, run.count)
                 /\ run.progLog[k] > 0
                 /\ k > 1 => run.progLog[k - 1] <= run.progLog[k]
            /\ (run.pc = "done" /\ ~run.threw /\ ~run.loadFailed) =>
                 /\ Len(run.progLog) = run.count
                 /\ run.progLog[run.count] = 100
                 /\ progress = 100

\* a finished batch run of forty attempts, one of them without a frame,
\* whose reports include a half rounded up (2.5 to 3) and the 23rd, 57
C4_Witness ==
    \E r \in Live :
        /\ runs[r].mode = "batch" /\ runs[r].pc = "done"
        /\ runs[r].outcome = COMPLETED
        /\ Len(runs[r].progLog) = 40
        /\ runs[r].progLog[1] = 3
        /\ runs[r].progLog[22] = 55
        /\ runs[r].progLog[23] = 57
        /\ runs[r].progLog[24] = 60
        /\ runs[r].progLog[40] = 100
        /\ Len(runs[r].shots) = 39

\* timestamps of an array of Screenshots never decrease
Ascending(shots) ==
    \A k \in 1..(Len(shots) - 1) :
        FLe(shots[k].timestamp, shots[k + 1].timestamp)

\* C5 as stated: extractBatch returns at most count screenshots, fewer than
\* count exactly when some encode returned null; a null encode adds no
\* Screenshot and does not end the loop; the timestamps returned never
\* decrease.
C5_AsStated ==
    \A r \in Live :
        LET run == runs[r] IN
        (run.mode = "batch" /\ run.outcome = COMPLETED) =>
            /\ Len(run.shots) <= run.count
            /\ (Len(run.shots) < run.count) <=> (run.encodeNulls > 0)
            /\ run.attempts = run.count
            /\ Ascending(run.shots)

Active(run) == run.pc \in {"loading", "seeking", "encoding"}
Started == Len(runs') = Len(runs) + 1
Selected == Len(selects') = Len(selects) + 1

\* C6: an invocation ends in Error exactly when its media load failed or an
\* exception was raised during the capture; frames that could not be
\* encoded never make it end in Error; with the Error status a message is
\* set; and after its end it issues no load, seek or encode: a load is
\* issued only when the user starts a handler.
C6_Step ==
    /\ \A r \in 1..Len(runs) :
         (Active(runs[r]) /\ runs'[r].pc = "done") =>
            /\ (runs'[r].outcome = ERROR) <=>
                   (runs'[r].loadFailed \/ runs'[r].threw)
            /\ runs'[r].outcome \in {ERROR, COMPLETED}
            /\ status' = runs'[r].outcome
            /\ runs'[r].outcome = ERROR => errorMsg' \in {MsgExtractFailed}
    /\ \A s \in 1..Len(selects) :
         (selects[s].pc = "loading" /\ selects'[s].pc = "done") =>
            /\ (status' = ERROR) <=> ~Decodable(selects[s].file)
            /\ status' = ERROR => errorMsg' = MsgLoadFailed
    /\ \A r \in 1..Len(runs) :
         ~Active(runs[r]) =>
            /\ ~Active(runs'[r])
            /\ runs'[r].loads <= runs[r].loads
            /\ runs'[r].seeks <= runs[r].seeks
            /\ runs'[r].encodes <= runs[r].encodes
    /\ \A s \in 1..Len(selects) :
         selects[s].pc = "done" => selects'[s].pc = "done"
    /\ Len(videoUrls') # Len(videoUrls) =>
         /\ Len(videoUrls') = Len(videoUrls) + 1
         /\ Started \/ Selected
C6_ErrorOnlyOnFailure == [][C6_Step]_vars

\* a run that captured one frame, then met an exception: Error, with the
\* message shown
C6_Witness ==
    \E r \in Live :
        /\ runs[r].pc = "done" /\ runs[r].outcome = ERROR /\ runs[r].threw
        /\ Len(runs[r].shots) = 1
        /\ status = ERROR /\ errorMsg = MsgExtractFailed
        /\ stale = <<>>

\* C7 as stated: a run begins in Idle and sets LoadingMedia while the loader
\* works, then Extracting (batch) or CapturingOne (last-frame) when the
\* media has loaded, and ends in Completed or Error; its steps change the
\* status in no other way; the loader is invoked once per run, when it
\* starts. ProcessingStatus (types.ts:16-23) has no member for CapturingOne:
\* EXTRACTING is taken for it.
C7_StepAsStated ==
    /\ Started =>
         /\ Shown.status = IDLE
         /\ status' = LOADING_VIDEO
         /\ Len(videoUrls') = Len(videoUrls) + 1
    /\ \A r \in 1..Len(runs) :
         (Active(runs[r]) /\ runs'[r] # runs[r]) =>
            /\ Len(videoUrls') = Len(videoUrls)
            /\ IF runs'[r].pc = "done"
               THEN status' \in {COMPLETED, ERROR}
               ELSE IF runs[r].pc = "loading"
                    THEN status' = EXTRACTING
                    ELSE status' = status
C7_AsStated == [][C7_StepAsStated]_vars

\* C7, amended: a run starts from a status that is not a processing one
\* (Idle, Completed or Error), on the page and with the queued updates
\* applied, and, in starting, sets Extracting and invokes the loader, in
\* both modes; it never sets LoadingMedia. Its steps leave the status as it
\* is until the one that ends the run, which sets Completed or Error, Error
\* when it is the load that failed. The loader is invoked once per run: one
\* object URL is made when the run starts, none by its later steps.
C7_Step ==
    /\ Started =>
         /\ Shown.status \in {IDLE, COMPLETED, ERROR}
         /\ status \in {IDLE, COMPLETED, ERROR}
         /\ runs'[Len(runs')].from = Shown.status
         /\ status' = EXTRACTING
         /\ runs'[Len(runs')].pc = "loading"
         /\ Len(videoUrls') = Len(videoUrls) + 1
    /\ \A r \in 1..Len(runs) :
         (Active(runs[r]) /\ runs'[r] # runs[r]) =>
            /\ Len(videoUrls') = Len(videoUrls)
            /\ IF runs'[r].pc = "done"
               THEN /\ status' \in {COMPLETED, ERROR}
                    /\ status' = runs'[r].outcome
                    /\ runs[r].pc = "loading" => status' = ERROR
               ELSE /\ status' = status
                    /\ runs'[r].pc # "loading"
C7_RunStatusOrder == [][C7_Step]_vars

\* a last-frame run started from Completed, the status a first last-frame
\* run had left, that has ended in Completed itself
C7_Witness ==
    /\ Len(runs) = 2
    /\ runs[1].pc = "gone"
    /\ runs[2].from = COMPLETED /\ runs[2].mode = "last-frame"
    /\ runs[2].pc = "done" /\ runs[2].outcome = COMPLETED
    /\ status = COMPLETED

\* C8 as stated: when the rendering surface cannot be acquired the run ends
\* in Error; the timestamp is not skipped like a frame that failed to encode.
C8_AsStated ==
    \A r \in Live : runs[r].noSurface > 0 => runs[r].outcome = ERROR

\* C9 as stated: every object URL made by loadVideo is revoked exactly once,
\* not twice, and not zero times once the handler that loaded it has
\* returned.
C9_AsStated ==
    \A u \in 1..Len(videoUrls) :
        /\ videoUrls[u].revoked <= 1
        /\ ~videoUrls[u].open => videoUrls[u].revoked = 1

\* C10 as stated: the object URL of a Screenshot is revoked at most once,
\* and not while the Screenshot is in the displayed result set.
C10_AsStated ==
    /\ \A id \in 1..Len(revokes) : revokes[id] <= 1
    /\ \A k \in 1..Len(Shown.screenshots) :
         revokes[Shown.screenshots[k].id] = 0

\* 0.4 * duration / (count + 1)
JitterBound(d, c) == FDiv(FMul(Dbl(2, 5), d), FInt(c + 1))

\* C13: with jitter each candidate before clamping lies within
\* 0.4*duration/(count+1) of its unjittered value i*duration/(count+1), for
\* every value of the random source; the bound is met up to the rounding of
\* the doubles involved, duration * 2^-50 at most.
C13_JitterWithinBound ==
    (plan.phase \in {"once", "twice"} /\ plan.randomize) =>
        /\ Len(plan.raw) = plan.count
        /\ \A i \in 1..plan.count :
             LET even == EvenSplit(plan.duration, plan.count, i)
                 dev == FAbs(FSub(plan.raw[i], even))
                 b == JitterBound(plan.duration, plan.count)
             IN  FLe(dev, FAdd(b, FMul(plan.duration, RoundOff)))

\* a 10 s video, 3 frames, jitter on: the first candidate a full 0.4 step
\* (1 s) below 2.5, the second 0.98 s above 5
C13_Witness ==
    /\ plan.phase = "once" /\ plan.randomize
    /\ plan.duration = FInt(10) /\ plan.count = 3
    /\ plan.raw[1] = Dbl(3, 2)
    /\ plan.raw[2] = Dbl(299, 50)

StepClearsMargin(d, c) == FLe(EdgeMargin, FDiv(d, FInt(c + 1)))

C15_LowerBoundWins ==
    (plan.phase \in {"once", "twice"}
        /\ FLt(FSub(plan.duration, EdgeMargin), EdgeMargin)) =>
        /\ Len(plan.out) = plan.count
        /\ \A k \in 1..plan.count : plan.out[k] = EdgeMargin

\* duration 0.15 s, count 1: the candidate 0.075 is planned as 0.1
C15_Witness ==
    /\ plan.phase = "once" /\ ~plan.randomize
    /\ plan.duration = Dbl(3, 20) /\ plan.count = 1
    /\ plan.raw = <<Dbl(3, 40)>>
    /\ plan.out = <<Dbl(1, 10)>>

\* HH-MM-SS of the whole seconds of t (hours of the day)
Pad2(k) == IF k < 10 THEN "0" \o ToString(k) ELSE ToString(k)
ClockOf(t) ==
    LET secs == FFloor(t)
    IN  Pad2((secs \div 3600) % 24) \o "-" \o Pad2((secs \div 60) % 60)
            \o "-" \o Pad2(secs % 60)

\* C16: the fileName is a function of the timestamp and the mode:
\* frame_<HH-MM-SS>.jpg in batch mode, frame_last_<HH-MM-SS>.jpg in last-frame
\* mode, HH-MM-SS being the timestamp truncated to whole seconds; a 10 s
\* video planned for 3 frames without jitter gives 2.5, 5, 7.5 and the names
\* frame_00-00-02.jpg, frame_00-00-05.jpg, frame_00-00-07.jpg.  The
\* timestamp is the double the planner computed: the 11th of 21 frames of
\* a 30 s video lies just under 15 s and is named frame_00-00-14.jpg.
C16_FileNames ==
    plan.phase \in {"once", "twice"} =>
        /\ Len(plan.names) = Len(plan.out)
        /\ \A k \in 1..Len(plan.out) :
             plan.names[k] = "frame_" \o ClockOf(plan.out[k]) \o ".jpg"
        /\ plan.lastName =
               "frame_last_" \o ClockOf(LastTarget(plan.duration)) \o ".jpg"
        /\ (plan.duration = FInt(10) /\ plan.count = 3 /\ ~plan.randomize) =>
             /\ plan.out = <<Dbl(5, 2), FInt(5), Dbl(15, 2)>>
             /\ plan.names = <<"frame_00-00-02.jpg", "frame_00-00-05.jpg",
                               "frame_00-00-07.jpg">>

\* a 30 s video planned for 21 frames: the 10th frame at 13.64 s is named
\* 00-00-13, the 11th, just under 15 s, 00-00-14, and the last frame at
\* 29.9 s 00-00-29
C16_Witness ==
    /\ plan.phase = "once" /\ ~plan.randomize
    /\ plan.duration = FInt(30) /\ plan.count = 21
    /\ FLt(plan.out[11], FInt(15))
    /\ plan.names[10] = "frame_00-00-13.jpg"
    /\ plan.names[11] = "frame_00-00-14.jpg"
    /\ plan.names[12] = "frame_00-00-16.jpg"
    /\ plan.lastName = "frame_last_00-00-29.jpg"
\* the scale setting held inside 10..100 percent
HeldPercent(sc) == IF sc < 10 THEN 10 ELSE IF sc > 100 THEN 100 ELSE sc

\* floor(n * pct / 100) with the product taken in doubles: the floor of the
\* exact product, or one less where the exact product is a whole number and
\* the double product falls just under it (360 at 70 percent gives 251)
FloorOfProduct(v, n, pct) ==
    \/ v = (n * pct) \div 100
    \/ (n * pct) % 100 = 0 /\ v = (n * pct) \div 100 - 1

\* C17: for every scale setting, out-of-range ones included, the canvas is
\* floor(nativeWidth*s) by floor(nativeHeight*s), s being the setting held
\* inside [0.1, 1.0]; at 1.0 the canvas has the native dimensions, at 0.5
\* floor(nativeWidth*0.5) by floor(nativeHeight*0.5).
C17_RasterDimensions ==
    plan.phase = "sized" =>
        LET w == VideoWidth(plan.file)
            h == VideoHeight(plan.file)
            pct == HeldPercent(plan.scale)
        IN  /\ FloorOfProduct(plan.width, w, pct)
            /\ FloorOfProduct(plan.height, h, pct)
            /\ plan.scale >= 100 => plan.width = w /\ plan.height = h
            /\ plan.scale = 50 =>
                   plan.width = w \div 2 /\ plan.height = h \div 2

\* the 7x5 video at the stored setting 250: the canvas is 7x5
C17_Witness ==
    /\ plan.phase = "sized"
    /\ plan.file = "odd.mp4" /\ plan.scale = 250
    /\ plan.width = 7 /\ plan.height = 5
\* C11: a last-frame run on a video of duration D issues exactly one seek,
\* to max(0, D - 0.1), and never computes the planner's timestamp list.
C11_LastFrameSingleSeek ==
    \A r \in Live :
        LET run == runs[r] IN
        run.mode = "last-frame" =>
            /\ ~run.planned /\ run.timestamps = <<>>
            /\ run.seeks <= 1
            /\ run.seeks = 1 =>
                   /\ run.time = LastTarget(Duration(run.file))
                   /\ run.video.currentTime = run.time
            /\ run.pc \in {"seeking", "encoding"} => run.seeks = 1
            /\ (run.pc = "done" /\ ~run.loadFailed) => run.seeks = 1

\* a last-frame run on the 0.05 s video that has finished with its frame,
\* taken at 0
C11_Witness ==
    \E r \in Live :
        /\ runs[r].mode = "last-frame" /\ runs[r].file = "flash.mp4"
        /\ runs[r].pc = "done" /\ runs[r].outcome = COMPLETED
        /\ runs[r].seeks = 1 /\ runs[r].time = FZero
        /\ Len(runs[r].shots) = 1
        /\ screenshots = runs[r].shots

StemOf(f) ==
    CASE f = "tiny.mp4" -> "tiny"
      [] f = "blip.v2.mp4" -> "blip.v2"
      [] f = "broken.mp4" -> "broken"
      [] f = "flash.mp4" -> "flash"
      [] f = "clip.mp4" -> "clip"
      [] OTHER -> f

\* C18 as stated: one screenshot is saved directly under its fileName;
\* several are saved as one archive holding exactly one entry per
\* screenshot of the result set, each under that screenshot's fileName,
\* the archive being named <stem>_previews.zip in batch mode and
\* <stem>_last_frame.zip in last-frame mode; a download of an empty result
\* set saves nothing.
C18_AsStated ==
    (saved # <<>> /\ saved[1].by = "handleDownload") =>
        LET call == saved[1]
            shots == call.shots
        IN  /\ Len(shots) >= 1
            /\ Len(shots) = 1 =>
                   call.kind = "file" /\ call.name = shots[1].fileName
            /\ Len(shots) > 1 =>
                   /\ call.kind = "zip"
                   /\ Len(call.entries) = Len(shots)
                   /\ \A k \in 1..Len(shots) :
                        \E e \in 1..Len(call.entries) :
                            /\ call.entries[e].id = shots[k].id
                            /\ call.entries[e].name = shots[k].fileName
                   /\ call.metadata # <<>>
                   /\ call.name = StemOf(call.metadata[1].filename) \o
                          (IF call.mode = "batch" THEN "_previews.zip"
                           ELSE "_last_frame.zip")

\* the steps in which an archive failed to build
ZipFailure == Len(zips') < Len(zips) /\ saved' = <<>>

\* the archive button of the render of the state as it is now: there, and
\* not disabled
DownloadOffered == Len(screenshots) > 0 /\ status # ZIPPING

\* C19: when the archive fails to build only the download fails: a message
\* is set, the result set, the file and its metadata are as they were, and
\* the download can be started again as soon as the failure is rendered.
C19_Step ==
    /\ ZipFailure =>
        /\ errorMsg' = MsgZipFailed
        /\ status' = ERROR
        /\ screenshots' = screenshots
        /\ revokes' = revokes
        /\ <<file', metadata', mode', progress'>> = <<file, metadata, mode, progress>>
        /\ Len(screenshots) > 0 => DownloadOffered'
    /\ (stale # <<>> /\ stale' = <<>> /\ DownloadOffered') => CanDownload'
C19_ZipFailureKeepsResults == [][C19_Step]_vars

\* the archive of two screenshots failed to build, the download was started
\* again and has saved the archive: the message of the failure is still set
C19_Witness ==
    /\ saved # <<>>
    /\ saved[1].kind = "zip"
    /\ errorMsg = MsgZipFailed
    /\ faults = 1
    /\ Len(screenshots) = 2
    /\ status = COMPLETED

\* C20: when the decoder reports an error during loadVideo the load is
\* rejected (the handler that awaited it ends in Error with its message),
\* and the object URL made by that call has been revoked by then, once.
C20_Step ==
    /\ \A s \in 1..Len(selects) :
         (selects[s].pc = "loading" /\ selects'[s].pc = "done"
             /\ ~Decodable(selects[s].file)) =>
            /\ videoUrls[selects[s].url].revoked = 0
            /\ videoUrls'[selects[s].url].revoked = 1
            /\ status' = ERROR /\ errorMsg' = MsgLoadFailed
    /\ \A r \in 1..Len(runs) :
         (runs[r].pc = "loading" /\ runs'[r].pc = "done") =>
            /\ ~Decodable(runs[r].file)
            /\ runs'[r].loadFailed
            /\ videoUrls[runs[r].url].revoked = 0
            /\ videoUrls'[runs[r].url].revoked = 1
            /\ status' = ERROR /\ errorMsg' = MsgExtractFailed
C20_LoadErrorReleasesUrl == [][C20_Step]_vars

\* the undecodable file was selected, its load failed, and an extraction
\* started on it failed to load as well: both URLs revoked once
C20_Witness ==
    /\ Len(videoUrls) = 2
    /\ \A u \in 1..2 : videoUrls[u].revoked = 1 /\ ~videoUrls[u].open
    /\ \E r \in Live : runs[r].loadFailed /\ runs[r].file = "broken.mp4"
    /\ status = ERROR
\* 0.2 * duration / (count + 1)
JitterGap(d, c) == FDiv(FMul(Dbl(1, 5), d), FInt(c + 1))

\* C29: with jitter the candidates are strictly ascending before clamping,
\* adjacent ones at least 0.2*duration/(count+1) apart (up to the rounding
\* of the doubles involved, duration * 2^-50 at most), for every value of
\* the random source; so the sort leaves every candidate at its index: the
\* k-th timestamp is the clamp of the k-th candidate.
C29_JitterKeepsOrder ==
    (plan.phase \in {"once", "twice"} /\ plan.randomize) =>
        /\ \A k \in 1..(plan.count - 1) :
             /\ FLt(plan.raw[k], plan.raw[k + 1])
             /\ FLe(FSub(JitterGap(plan.duration, plan.count),
                         FMul(plan.duration, RoundOff)),
                    FSub(plan.raw[k + 1], plan.raw[k]))
        /\ \A k \in 1..plan.count :
             plan.out[k] = Held(plan.duration, plan.raw[k])

\* a 10 s video, 3 frames: the first candidate pushed up by 0.49 of the
\* jitter span (2.5 + 0.98), the second pushed down by half of it (5 - 1),
\* 0.52 s apart where the bound is 0.5 s
C29_Witness ==
    /\ plan.phase = "once" /\ plan.randomize
    /\ plan.duration = FInt(10) /\ plan.count = 3
    /\ plan.raw[1] = Dbl(87, 25)
    /\ plan.raw[2] = FInt(4)
    /\ plan.out[1] = Dbl(87, 25) /\ plan.out[2] = FInt(4)
\* C22: a media handle never carries more than one 'seeked' listener; the
\* listener is there exactly while its seek is outstanding, so it is gone
\* once the seek has completed, during every encode, and when extractFrames
\* or extractSpecificFrame has returned or thrown.
C22_NoListenerLeak ==
    \A r \in Live :
        LET run == runs[r] IN
        /\ run.video.listeners <= 1
        /\ run.video.listeners = run.video.seeking
        /\ run.pc = "seeking" => run.video.listeners = 1
        /\ run.pc \in {"loading", "encoding", "done"} => run.video.listeners = 0
        /\ run.video.listeners = run.seeks - run.seeked

\* a batch run that has returned after eight completed seeks with no
\* listener left on its handle
C22_Witness ==
    \E r \in Live :
        /\ runs[r].pc = "done"
        /\ runs[r].mode = "batch"
        /\ runs[r].seeks = 8 /\ runs[r].seeked = 8
        /\ runs[r].video.listeners = 0
\* C23: when every awaited host event fires in the end, a started run ends:
\* it reaches its last step with the outcome Completed or Error, which is
\* the status it sets; and a batch run that ends Completed has made exactly
\* `count` capture attempts.
C23_RunTerminates ==
    /\ [](\A r \in Live :
            (runs[r].pc = "done" /\ runs[r].mode = "batch"
                /\ runs[r].outcome = COMPLETED) =>
                    runs[r].attempts = runs[r].count)
    /\ (Len(runs) = 1 /\ runs[1].pc \in {"loading", "seeking", "encoding"})
           ~> (/\ Len(runs) = 1 /\ runs[1].pc = "done"
               /\ runs[1].outcome \in {COMPLETED, ERROR}
               /\ status = runs[1].outcome)

\* a batch run of 8 frames that has ended Completed after 8 capture
\* attempts, one of which gave no blob
C23_Witness ==
    /\ Len(runs) = 1 /\ runs[1].pc = "done"
    /\ runs[1].mode = "batch" /\ runs[1].count = 8
    /\ runs[1].outcome = COMPLETED /\ status = COMPLETED
    /\ runs[1].attempts = 8
    /\ Len(runs[1].shots) = 7
\* a media type that begins with "video/"
VideoType(t) == Head(t) = "video" /\ Tail(t) # <<>>

\* C21: only a file whose media type begins with "video/" is handed to
\* handleFileSelect and the loader: the selected file, the file of every
\* pending load of a selection and the file of every run are of such a
\* type. A pick of any other file shows the alert and leaves the selected
\* file, metadata, status, progress, results, message, settings, loads,
\* object URLs and pending archives as they were.
C21_Step ==
    /\ file # Null => VideoType(FileType(file))
    /\ \A k \in 1..Len(selects) :
         selects[k].pc = "loading" => VideoType(FileType(selects[k].file))
    /\ \A r \in Live : VideoType(FileType(runs[r].file))
    /\ Selected => VideoType(FileType(selects'[Len(selects')].file))
    /\ alert' # Null =>
         /\ alert' = MsgNotVideo
         /\ runs' = Forget(runs)
         /\ UNCHANGED <<file, metadata, status, progress, screenshots,
                        errorMsg, mode, count, randomize, selects, revokes,
                        videoUrls, zips>>
C21_OnlyVideosLoaded == [][C21_Step]_vars

\* a file that is not a video was picked after a reset, while the run the
\* reset abandoned was still extracting: the alert, and no load for it
C21_Witness ==
    /\ alert = MsgNotVideo
    /\ file = Null
    /\ Len(selects) = 1
    /\ \E r \in Live : runs[r].pc = "seeking"
    /\ Len(videoUrls) = 2
\* C24 as stated: at no time are two handleProcess invocations in flight.
C24_AsStated ==
    Cardinality({r \in 1..Len(runs) : Active(runs[r])}) <= 1

\* C25 as stated: while no file is selected (a reset has been done and
\* nothing has been picked since), a step of a run or of a load that is
\* still in flight writes no screenshots, progress, status or metadata.
C25_Step ==
    file = Null =>
        /\ \A r \in 1..Len(runs) :
             (Active(runs[r]) /\ runs'[r] # runs[r]) =>
                 UNCHANGED <<screenshots, progress, status, metadata>>
        /\ \A k \in 1..Len(selects) :
             (selects[k].pc = "loading" /\ selects'[k].pc = "done") =>
                 UNCHANGED <<screenshots, progress, status, metadata>>
C25_AsStated == [][C25_Step]_vars

\* C26 as stated: metadata, when not null, carries the name of the selected
\* file, and is null when no file is selected.
C26_AsStated ==
    /\ metadata # <<>> => (file # Null /\ metadata[1].filename = file)
    /\ file = Null => metadata = <<>>

\* C27 as stated: in last-frame mode the result set holds at most one
\* screenshot, and no archive is ever built from a download made in
\* last-frame mode.
C27_AsStated ==
    /\ mode = "last-frame" => Len(screenshots) <= 1
    /\ \A z \in 1..Len(zips) : zips[z].mode # "last-frame"

\* C28 as stated: when a run has just ended in Error the result set is
\* empty.
C28_AsStated ==
    \A r \in Live :
        (runs[r].pc = "done" /\ runs[r].outcome = ERROR) => screenshots = <<>>
====
